---------------------------- MODULE Spec2Model ----------------------------
(***************************************************************************)
(* Verification model of the toonstream sync service:                      *)
(*   - ProxyManager            (proxy-manager.js, src/unnamed/part_000)    *)
(*   - extractRealVideoUrl     (src/toonstream-supabase-sync.js)           *)
(*   - syncEpisodeByUrl, upsertEpisode, processRetries (same file)         *)
(* Each component has its own specification over the shared variables.     *)
(***************************************************************************)
EXTENDS Integers, Sequences, FiniteSets, TLC

VARIABLES
    \* ---- ProxyManager (class fields) ----
    customProxies,          \* this.customProxies (configured entries)
    validateCustomProxies,  \* this.validateCustomProxies
    useProxy,               \* this.useProxy
    proxies,                \* this.proxies
    currentIndex,           \* this.currentIndex (0-based, as in the code)
    failedProxies,          \* this.failedProxies
    lastProxy,              \* value returned by the last getNextProxy()
    pmOp,                   \* the ProxyManager method that ran last
    pmHealthy,              \* entries that passed testProxy in the last initialize
    \* ---- extractRealVideoUrl (one top-level call) ----
    rsPc,          \* "call" | "fetch" | "scripts" | "done": position in resolve
    rsUrl,         \* url argument of the current resolve call
    rsDepth,       \* depth argument of the current resolve call
    visited,       \* the visited set closed over by resolve
    fetched,       \* URLs handed to fetchHtmlWithRetry, in call order
    rsFetch,       \* "none" | "ok" | "failed": fetch of the current call
    rsDirect,      \* directVideo of the current call (pickDirectVideo())
    rsIframe,      \* iframeUrl of the current call (pickIframe())
    rsHasIframe,   \* the fetched document holds an iframe element
    rsResult,      \* value returned by the top-level call
    rsCycle,       \* some fetched document referred back to a visited URL
    rsChain,       \* every document so far only embeds a fresh same-site page
    \* ---- syncEpisodeByUrl / upsertEpisode / processRetries ----
    now,                \* Date.now(), in hours
    upstream,           \* what buildEpisodeRecord yields for each item
    episodes,           \* store collection "episodes", by item identity
    episode_retries,    \* store collection "episode_retries"
    latest_episodes,    \* store collection "latest_episodes"
    localEpisodeCache,  \* the episode cache of the process (localEpisodeCache)
    episodeCacheFile,   \* what loadCache reads from episode_cache.json
    processedEpisodes,  \* the in-memory processed set of the process
    stats,              \* the statistics counters of the process
    settled,            \* items synced or skipped since they last changed upstream
    syOp,               \* the orchestrator operation that ran last
    syCalls,            \* what the last sync operation called: "read", "write", "fetch"
    \* ---- fetchHtmlWithRetry (one call) ----
    fhPc,          \* "idle" | "attempt" | "sent" | "returned" | "threw"
    fhAttempt,     \* the loop variable attempt
    fhProxy,       \* currentProxy
    fhLastErr,     \* lastErr: the error caught last, Null when none
    fhResult,      \* the body returned or the message of the error thrown
    fhSent,        \* number of requests sent by this call
    fhProxyCalls,  \* number of getNextProxy() calls made by this call
    fhOks,         \* number of responses with a status in [200,400)
    fhLastStatus,  \* status of the last response, 0 when there was none
    fhErrors,      \* the errors caught by this call, in order
    \* ---- main (one sync pass after the other) ----
    mnPc,             \* "idle", the phase main is about to run, "done", "aborted"
    mnPhases,         \* the phases the pass has executed, in order
    mnThrew,          \* an exception has left main
    mnLatest,         \* latestSeriesMap holds the series of the model
    mnPasses,         \* passes started
    mnStoreFailures,  \* item failures at the store, over all passes
    \* ---- sync-server.js ----
    syncStatus,    \* isRunning, lastRunSuccess, totalRuns, successfulRuns, failedRuns
    svListening,   \* the callback of app.listen has run
    svActive,      \* calls of runSyncScript() that have not settled
    svTriggers,    \* triggers so far
    svResponse,    \* the status of the last answer of GET /sync
    svOp,          \* the handler that ran last
    \* ---- extractEmbeds (candidate collection of one episode page) ----
    exPc,          \* "page" | "done": before and after the collection
    exPlayer,      \* the li.dooplay_player_option elements: data-nume, data-type
    exSources,     \* URLs of the option / source-box / video-source elements
    exIframes,     \* src of the iframe elements, in document order
    serverOptions, \* the candidates collected, in push order
    embeds,        \* the servers that extractEmbeds returns
    \* ---- resolveSeriesContext / syncSeries (the series of the items) ----
    series,        \* the store collection "series" holds the row of the series
    seriesCache,   \* seriesCache (the Map of the process) holds the series
    seUpserts      \* calls of upsertEpisode for the item that returned, last sync

pmVars == <<customProxies, validateCustomProxies, useProxy, proxies,
            currentIndex, failedProxies, lastProxy, pmOp, pmHealthy>>

rsVars == <<rsPc, rsUrl, rsDepth, visited, fetched, rsFetch, rsDirect,
            rsIframe, rsHasIframe, rsResult, rsCycle, rsChain>>

syVars == <<now, upstream, episodes, episode_retries, latest_episodes,
            localEpisodeCache, episodeCacheFile, processedEpisodes, stats,
            settled, syOp, syCalls>>

fhVars == <<fhPc, fhAttempt, fhProxy, fhLastErr, fhResult, fhSent,
            fhProxyCalls, fhOks, fhLastStatus, fhErrors>>

mnVars == <<mnPc, mnPhases, mnThrew, mnLatest, mnPasses, mnStoreFailures>>

svVars == <<syncStatus, svListening, svActive, svTriggers, svResponse, svOp>>

exVars == <<exPc, exPlayer, exSources, exIframes, serverOptions, embeds>>

seVars == <<series, seriesCache, seUpserts>>

vars == <<pmVars, rsVars, syVars, fhVars, mnVars, svVars, exVars, seVars>>

\* what an action of one component leaves alone in the others
PmFrame == UNCHANGED <<rsVars, syVars, fhVars, mnVars, svVars, exVars, seVars>>
RsFrame == UNCHANGED <<pmVars, syVars, fhVars, mnVars, svVars, exVars, seVars>>
SyFrame == UNCHANGED <<pmVars, rsVars, fhVars, mnVars, svVars, exVars, seVars>>
FhFrame == UNCHANGED <<rsVars, syVars, mnVars, svVars, exVars, seVars>>
MnFrame == UNCHANGED <<pmVars, rsVars, fhVars, svVars, exVars, seVars>>
SvFrame == UNCHANGED <<pmVars, rsVars, syVars, fhVars, mnVars, exVars, seVars>>
ExFrame == UNCHANGED <<pmVars, rsVars, syVars, fhVars, mnVars, svVars, seVars>>
SeFrame == UNCHANGED <<pmVars, rsVars, fhVars, mnVars, svVars, exVars>>

-----------------------------------------------------------------------------
(* Bounds of the model *)

NumProxies == 3       \* number of distinct configured proxy entries
MaxProxyTests == 2    \* PROXY_MAX_TESTS as configured for the model
MaxPool == 4          \* cap on the pool length that fetchFreeProxies can grow
EmbedMaxDepth == 0    \* CONFIG.embedMaxDepth (EMBED_MAX_DEPTH) of the model
NumItems == 1         \* number of episode identities
MaxTicks == 2         \* number of times the clock advances
TickHours == 5        \* hours by which the clock advances at a time
MaxStat == 1          \* cap on each statistics counter
MaxServers == 2       \* largest number of servers an item resolves to
NumEpisodes == 5      \* episodes of the series of the completeness pass

-----------------------------------------------------------------------------
(* Values *)

Null == "null"             \* JavaScript null
Undefined == "undefined"   \* JavaScript undefined (array read out of range)

Range(s) == {s[i] : i \in DOMAIN s}

\* normalised proxy entries ("http://host:port" strings)
ProxyNames == <<"p1", "p2", "p3", "p4", "p5">>

CustomList == SubSeq(ProxyNames, 1, NumProxies)

\* the lists a free-proxy source may answer with (after slice(0, 20))
FreeLists == {<<>>, <<"p1">>, <<"p1", "p2">>}

-----------------------------------------------------------------------------
(* ProxyManager *)

\* this.proxies[i] for a 0-based index i; undefined when out of range
ProxyAt(pool, i) == IF i + 1 \in DOMAIN pool THEN pool[i + 1] ELSE Undefined

\* filterWorkingProxies: the entries kept, given the set ok of entries that
\* pass testProxy.  Entries after the first MaxProxyTests are kept untested.
TestedList(pool, ok) ==
    SelectSeq([i \in DOMAIN pool |-> <<i, pool[i]>>],
              LAMBDA e : \/ (MaxProxyTests # 0 /\ e[1] > MaxProxyTests)
                         \/ e[2] \in ok)

\* the entries filterWorkingProxies hands to testProxy: all of them when
\* maxProxyTests is 0, else the first maxProxyTests
CheckedProxies(pool) ==
    {pool[i] : i \in {j \in DOMAIN pool : MaxProxyTests = 0 \/ j <= MaxProxyTests}}

FilterWorkingProxies(pool, ok) ==
    IF ~validateCustomProxies \/ Len(pool) = 0 THEN pool
    ELSE LET tested == TestedList(pool, ok)
         IN  IF Len(tested) = 0 THEN pool
             ELSE [i \in DOMAIN tested |-> tested[i][2]]

\* the loop of getNextProxy, from `attempts` on, with cursor idx:
\* the result is the returned value, the cursor and the tombstone set
RECURSIVE NextProxyLoop(_, _)
NextProxyLoop(attempts, idx) ==
    IF attempts < Len(proxies)
    THEN LET proxy == ProxyAt(proxies, idx)
             nidx  == (idx + 1) % Len(proxies)
         IN  IF proxy \notin failedProxies
             THEN [ret |-> proxy, idx |-> nidx, failed |-> failedProxies]
             ELSE NextProxyLoop(attempts + 1, nidx)
    ELSE [ret |-> proxies[1], idx |-> idx, failed |-> {}]

GetNextProxyResult ==
    IF ~useProxy \/ Len(proxies) = 0
    THEN [ret |-> Null, idx |-> currentIndex, failed |-> failedProxies]
    ELSE NextProxyLoop(0, currentIndex)

PmInit ==
    /\ customProxies \in {<<>>, CustomList}
    /\ validateCustomProxies \in BOOLEAN
    /\ useProxy \in BOOLEAN
    /\ proxies = <<>>
    /\ currentIndex = 0
    /\ failedProxies = {}
    /\ lastProxy = Null
    /\ pmOp = "constructor"
    /\ pmHealthy = {}

\* initialize(): custom entries are normalised and health-checked
InitializeCustom ==
    /\ PmFrame
    /\ useProxy
    /\ Len(customProxies) > 0
    /\ \E ok \in SUBSET Range(customProxies) :
          /\ proxies' = FilterWorkingProxies(customProxies, ok)
          /\ pmHealthy' = IF validateCustomProxies
                          THEN ok \cap CheckedProxies(customProxies) ELSE {}
    /\ pmOp' = "initialize"
    /\ UNCHANGED <<customProxies, validateCustomProxies, useProxy,
                   currentIndex, failedProxies, lastProxy>>

\* initialize(): no custom entries, fetchFreeProxies appends to the pool
InitializeFree ==
    /\ PmFrame
    /\ useProxy
    /\ Len(customProxies) = 0
    /\ \E proxyList \in FreeLists :
          /\ Len(proxies) + Len(proxyList) <= MaxPool
          /\ proxies' = proxies \o proxyList
          /\ useProxy' = (Len(proxies \o proxyList) # 0)
    /\ pmHealthy' = {}
    /\ pmOp' = "initialize"
    /\ UNCHANGED <<customProxies, validateCustomProxies,
                   currentIndex, failedProxies, lastProxy>>

\* initialize(): proxy system disabled, nothing is loaded
InitializeDisabled ==
    /\ PmFrame
    /\ ~useProxy
    /\ pmOp' = "initialize"
    /\ UNCHANGED <<customProxies, validateCustomProxies, useProxy, proxies,
                   currentIndex, failedProxies, lastProxy, pmHealthy>>

Initialize == InitializeCustom \/ InitializeFree \/ InitializeDisabled

GetNextProxy ==
    /\ PmFrame
    /\ pmOp # "constructor"
    /\ LET r == GetNextProxyResult
       IN  /\ lastProxy' = r.ret
           /\ currentIndex' = r.idx
           /\ failedProxies' = r.failed
    /\ pmOp' = "getNextProxy"
    /\ UNCHANGED <<customProxies, validateCustomProxies, useProxy, proxies,
                   pmHealthy>>

\* markProxyAsFailed(proxy); its caller fetchHtmlWithRetry calls it in the
\* attempt that obtained `proxy` from getNextProxy(), when that attempt
\* failed with ECONNREFUSED or ETIMEDOUT
MarkProxyAsFailed(proxy) ==
    /\ PmFrame
    /\ pmOp = "getNextProxy"
    /\ failedProxies' = IF proxy \notin {Null, Undefined}
                        THEN failedProxies \cup {proxy}
                        ELSE failedProxies
    /\ pmOp' = "markProxyAsFailed"
    /\ UNCHANGED <<customProxies, validateCustomProxies, useProxy, proxies,
                   currentIndex, lastProxy, pmHealthy>>

PmNext ==
    \/ Initialize
    \/ GetNextProxy
    \/ MarkProxyAsFailed(lastProxy)

-----------------------------------------------------------------------------
(* Video Source Resolution Engine: extractRealVideoUrl *)

MAX_DEPTH_PlusOne == EmbedMaxDepth + 3

MAX_DEPTH == EmbedMaxDepth + 2

\* Same-site pages (host toonstream.one), enough of them for a chain that
\* is longer than MAX_DEPTH.
PageNames == <<"ts/p0", "ts/p1", "ts/p2", "ts/p3", "ts/p4", "ts/p5", "ts/p6">>

TsPages == Range(SubSeq(PageNames, 1, MAX_DEPTH + 2))

\* The URLs of the model, already normalised (normalizeUrl), by what the
\* classifiers of the code see in them:
\*   "cdn/v.m3u8"   external host, video file extension
\*   "host/embed/x" external host, /embed/ path segment
\*   "ext/page"     external host, no known signature
\*   "sub.ts/x"     contains "toonstream.one" but its hostname is another
\*   "about:blank"  no host, not http(s)
\*   "ext/?trid=1"    external host, carries only the trid= marker
\*   "ext/?trembed=1" external host, carries the trembed marker
OtherUrls ==
    {"cdn/v.m3u8", "host/embed/x", "ext/page", "sub.ts/x", "about:blank",
     "ext/?trid=1", "ext/?trembed=1"}

Urls == TsPages \cup OtherUrls

\* `https://toonstream.one/?trembed=${nume}&trid=${post}&trtype=${type}` of
\* extractEmbeds, by nume; one table per trtype
TrembedType2 == <<"ts/?trembed=0&trid=5&trtype=2", "ts/?trembed=1&trid=5&trtype=2",
                  "ts/?trembed=2&trid=5&trtype=2", "ts/?trembed=3&trid=5&trtype=2">>
TrembedType1 == <<"ts/?trembed=0&trid=5&trtype=1", "ts/?trembed=1&trid=5&trtype=1",
                  "ts/?trembed=2&trid=5&trtype=1", "ts/?trembed=3&trid=5&trtype=1">>

ConstructedUrls == Range(TrembedType2) \cup Range(TrembedType1)

\* isToonstreamUrl: hostname equals TOONSTREAM_HOST
IsToonstreamUrl(u) == u \in TsPages \cup ConstructedUrls

\* url.includes('toonstream.one')
InclToonstream(u) == u \in TsPages \cup ConstructedUrls \/ u = "sub.ts/x"

\* url.includes('trembed')
InclTrembed(u) == u = "ext/?trembed=1" \/ u \in ConstructedUrls

\* url.includes('trid=')
InclTrid(u) == u = "ext/?trid=1" \/ u \in ConstructedUrls

\* url.includes("trembed") / "trid=" / "trtype="
HasMarker(u) == InclTrembed(u) \/ InclTrid(u)

\* url.includes("/embed/") || "/player/" || "/e/"
HasEmbedPath(u) == u = "host/embed/x"

NeedsFollow(u) ==
    /\ u # Null
    /\ (HasMarker(u) \/ IsToonstreamUrl(u) \/ HasEmbedPath(u))

IsVideoUrl(u) == u # Null /\ u = "cdn/v.m3u8"

\* the known-player signature list of resolve (contains '/embed/')
IsVideoPlayer(u) == u = "host/embed/x"

StartsWithHttp(u) == u # "about:blank"

IframeNotToonstream(u) == ~InclToonstream(u) /\ ~HasMarker(u)

\* the src attributes of the video/source elements of a document
Blob == "blob:x"

VideoTagLists ==
    {<<>>, <<Blob>>, <<"cdn/v.m3u8">>, <<"ext/page">>, <<Blob, "cdn/v.m3u8">>,
     <<Blob, "ext/page">>, <<"ext/page", "cdn/v.m3u8">>,
     <<"cdn/v.m3u8", "ext/page">>}

\* sequences of at most two URLs: iframe sources / script candidates
UrlLists == {<<>>} \cup {<<u>> : u \in Urls} \cup {<<u, w>> : u, w \in Urls}

\* first element of s that satisfies P, null when there is none
FirstWhere(s, P(_)) ==
    LET hits == {i \in DOMAIN s : P(s[i])}
    IN  IF hits = {} THEN Null
        ELSE s[CHOOSE i \in hits : \A j \in hits : i <= j]

\* pickDirectVideo: first element whose source is not a blob: URL
PickDirectVideo(video) == FirstWhere(video, LAMBDA src : src # Blob)

PickIframe_IgnoresVisited(iframes, url, seen) ==
    FirstWhere(iframes, LAMBDA f : f # url)

\* pickIframe: first iframe that is neither the current URL nor visited
PickIframe(iframes, url, seen) ==
    FirstWhere(iframes, LAMBDA f : f # url /\ f \notin seen)

\* pickFromScripts: candidates other than the current URL and not visited;
\* a video URL first, else one that needs following, else the first
PickFromScripts(scripts, url, seen) ==
    LET allCandidates == SelectSeq(scripts, LAMBDA c : c # url /\ c \notin seen)
        videoUrl == FirstWhere(allCandidates, IsVideoUrl)
        embedUrl == FirstWhere(allCandidates,
                               LAMBDA c : NeedsFollow(c) \/ HasEmbedPath(c))
    IN  IF videoUrl # Null THEN videoUrl
        ELSE IF embedUrl # Null THEN embedUrl
        ELSE IF allCandidates # <<>> THEN Head(allCandidates) ELSE Null

DirectVideoWins_Never(directVideo) == FALSE

\* if (directVideo && isVideoUrl(directVideo)) return directVideo
DirectVideoWins(directVideo) == directVideo # Null /\ IsVideoUrl(directVideo)

DepthAllows_Inclusive(depth) == depth <= MAX_DEPTH

\* depth < MAX_DEPTH, the guard of every recursive call
DepthAllows(depth) == depth < MAX_DEPTH

\* the two branches that return the iframe URL itself
IframeReturned(u) ==
    \/ IframeNotToonstream(u) /\ (IsVideoPlayer(u) \/ IsVideoUrl(u))
    \/ IframeNotToonstream(u) /\ StartsWithHttp(u)

RsInit ==
    /\ rsPc = "call"
    /\ rsUrl \in Urls \cup {Null}
    /\ rsDepth = 0
    /\ visited = {}
    /\ fetched = <<>>
    /\ rsFetch = "none"
    /\ rsDirect = Null
    /\ rsIframe = Null
    /\ rsHasIframe = FALSE
    /\ rsResult = Null
    /\ rsCycle = FALSE
    /\ rsChain = TRUE

RsReturn(value) ==
    /\ rsPc' = "done"
    /\ rsResult' = value
    /\ UNCHANGED <<rsUrl, rsDepth>>

RsRecurse(url) ==
    /\ rsPc' = "call"
    /\ rsUrl' = url
    /\ rsDepth' = rsDepth + 1
    /\ UNCHANGED rsResult

\* resolve(url, depth): the terminal checks and visited.add(url)
ResolveEnter ==
    /\ RsFrame
    /\ rsPc = "call"
    /\ IF rsUrl = Null THEN
          RsReturn(Null) /\ UNCHANGED visited
       ELSE IF rsUrl \in visited THEN
          RsReturn(rsUrl) /\ UNCHANGED visited
       ELSE IF rsDepth > MAX_DEPTH THEN
          RsReturn(rsUrl) /\ UNCHANGED visited
       ELSE
          /\ visited' = visited \cup {rsUrl}
          /\ rsPc' = "fetch"
          /\ UNCHANGED <<rsUrl, rsDepth, rsResult>>
    /\ rsFetch' = "none"
    /\ rsDirect' = Null
    /\ rsIframe' = Null
    /\ rsHasIframe' = FALSE
    /\ UNCHANGED <<fetched, rsCycle, rsChain>>

FetchFailureResult_FailedUrl(url) == url

\* the catch around fetchHtmlWithRetry: return null, not the failed URL
FetchFailureResult(url) == Null

\* resolve: fetchHtmlWithRetry throws, the call returns null
ResolveFetchFailed ==
    /\ RsFrame
    /\ rsPc = "fetch"
    /\ fetched' = Append(fetched, rsUrl)
    /\ rsFetch' = "failed"
    /\ RsReturn(FetchFailureResult(rsUrl))
    /\ rsChain' = FALSE
    /\ UNCHANGED <<visited, rsDirect, rsIframe, rsHasIframe, rsCycle>>

\* resolve: the document is fetched; direct video and iframe handling
ResolveFetched ==
    /\ RsFrame
    /\ rsPc = "fetch"
    /\ fetched' = Append(fetched, rsUrl)
    /\ rsFetch' = "ok"
    /\ \E video \in VideoTagLists, iframes \in UrlLists :
         LET directVideo == PickDirectVideo(video)
             iframeUrl   == PickIframe(iframes, rsUrl, visited)
         IN  /\ rsDirect' = directVideo
             /\ rsIframe' = iframeUrl
             /\ rsHasIframe' = (iframes # <<>>)
             /\ rsCycle' = (rsCycle \/ Range(iframes) \cap visited # {})
             /\ rsChain' = (/\ rsChain
                            /\ video = <<>>
                            /\ Len(iframes) = 1
                            /\ iframeUrl \in TsPages)
             /\ IF DirectVideoWins(directVideo) THEN
                   RsReturn(directVideo)
                ELSE IF /\ iframeUrl # Null
                        /\ DepthAllows(rsDepth)
                        /\ IframeReturned(iframeUrl) THEN
                   RsReturn(iframeUrl)
                ELSE IF /\ iframeUrl # Null
                        /\ DepthAllows(rsDepth)
                        /\ NeedsFollow(iframeUrl) THEN
                   RsRecurse(iframeUrl)
                ELSE
                   /\ rsPc' = "scripts"
                   /\ UNCHANGED <<rsUrl, rsDepth, rsResult>>
    /\ UNCHANGED visited

Fallback_DirectOnly(directVideo, url) == directVideo

\* return directVideo || url
Fallback(directVideo, url) == IF directVideo # Null THEN directVideo ELSE url

\* resolve: the inline scripts are scanned, then the fallbacks
ResolveScripts ==
    /\ RsFrame
    /\ rsPc = "scripts"
    /\ \E scripts \in UrlLists :
         LET scriptUrl == PickFromScripts(scripts, rsUrl, visited)
         IN  /\ rsCycle' = (rsCycle \/ Range(scripts) \cap visited # {})
             /\ rsChain' = (rsChain /\ scripts = <<>>)
             /\ IF scriptUrl # Null /\ IsVideoUrl(scriptUrl) THEN
                   RsReturn(scriptUrl)
                ELSE IF /\ scriptUrl # Null
                        /\ NeedsFollow(scriptUrl)
                        /\ DepthAllows(rsDepth) THEN
                   RsRecurse(scriptUrl)
                ELSE IF rsIframe # Null /\ DepthAllows(rsDepth) THEN
                   RsRecurse(rsIframe)
                ELSE
                   RsReturn(Fallback(rsDirect, rsUrl))
    /\ UNCHANGED <<visited, fetched, rsFetch, rsDirect, rsIframe, rsHasIframe>>

RsNext ==
    \/ ResolveEnter
    \/ ResolveFetchFailed
    \/ ResolveFetched
    \/ ResolveScripts

-----------------------------------------------------------------------------
(* Sync orchestrator: syncEpisodeByUrl, upsertEpisode, processRetries *)

ItemNames == <<"e1", "e2", "e3", "e4", "e5", "e6">>
Items == Range(SubSeq(ItemNames, 1, NumItems))

\* what buildEpisodeRecord assembles: the resolved servers and the TMDB image
Built == [servers : 0..MaxServers, thumbnail : {"none", "tmdb"}]

\* a column that holds SQL NULL
NoTime == -1

\* const intervals = [3h, 5h, 10h] of upsertEpisode, in hours
RetryIntervals == <<3, 5, 10>>
\* currentRetryCount < 3
RetryCap == 3
\* Date.now() + 5 * 60 * 60 * 1000 of syncEpisodeByUrl, in hours
SyncRetryHours == 5
\* .limit(10) of processRetries
RetryBatch == 10

\* where an operation of one sync can throw: nowhere, in buildEpisodeRecord,
\* at the upsert of episodes, at the upsert of latest_episodes
FailPoints == {"none", "build", "episodes", "latest"}

\* upsert and delete by identity on a collection
Upsert(table, key, row) ==
    [k \in DOMAIN table \cup {key} |-> IF k = key THEN row ELSE table[k]]

Delete(table, key) == [k \in DOMAIN table \ {key} |-> table[k]]

NoRows == [k \in {} |-> 0]

\* an upsert of episode_retries writes retry_at, retry_count and status; the
\* column next_retry_at keeps its value, NULL on insert
UpsertRetry(table, key, retryAt, retryCount) ==
    Upsert(table, key,
           [retry_at |-> retryAt,
            retry_count |-> retryCount,
            next_retry_at |-> IF key \in DOMAIN table
                              THEN table[key].next_retry_at ELSE NoTime])

\* localEpisodeCache[epKey] = basePayload, or { exists: true } on backfill
CachePayload(payload) ==
    [kind |-> "payload", servers |-> payload.servers, thumbnail |-> payload.thumbnail]

CacheBackfill == [kind |-> "exists", servers |-> 0, thumbnail |-> "none"]

ZeroStats ==
    [newEpisodes |-> 0, updatedEpisodes |-> 0, skippedEpisodes |-> 0,
     failedEpisodes |-> 0]

\* loadCache(EPISODE_CACHE_FILE) at module load: the parsed file
loadCache(file) == file

\* the ways fs.writeFileSync of saveCache fails: the file cannot be opened
\* and keeps its content, or it is truncated and the write breaks off, which
\* leaves a text that loadCache cannot parse and reads as {}
DiskFailures == {"cachefile-open", "cachefile-write"}

\* saveCache(EPISODE_CACHE_FILE, localEpisodeCache); the catch only warns
saveCache(st, fail) ==
    [st EXCEPT !.episodeCacheFile =
        IF fail = "cachefile-open" THEN @
        ELSE IF fail = "cachefile-write" THEN NoRows
        ELSE st.localEpisodeCache]

IncStat_Never(st, counter) == st

IncStat(st, counter) == [st EXCEPT !.stats[counter] = @ + 1]

\* the stores, the cache and the process state, as one value
SyState ==
    [episodes |-> episodes,
     episode_retries |-> episode_retries,
     latest_episodes |-> latest_episodes,
     localEpisodeCache |-> localEpisodeCache,
     episodeCacheFile |-> episodeCacheFile,
     processedEpisodes |-> processedEpisodes,
     stats |-> stats,
     calls |-> {}]

\* the operation reads the remote store, writes to it, or fetches a page
AddCalls(st, calls) == [st EXCEPT !.calls = @ \cup calls]

checkEpisodeNeedsUpdate(eps, e) ==
    IF e \notin DOMAIN eps
    THEN [exists |-> FALSE, needsUpdate |-> TRUE,
          hasThumbnail |-> FALSE, thumbnailUrl |-> "none"]
    ELSE LET data == eps[e]
             hasServers == data.servers > 0
             needsThumbnail == data.thumbnail = "none"
         IN  [exists |-> TRUE,
              needsUpdate |-> ~hasServers \/ needsThumbnail,
              hasThumbnail |-> data.thumbnail # "none",
              thumbnailUrl |-> data.thumbnail]

\* thumbnailUrl.includes('toonstream.one')
IsScrapedThumbnail(thumbnailUrl) == thumbnailUrl = "scraped"

RejectedUpsert_CachesAnyway(st, e, episodePayload) ==
    [AddCalls(st, {"write"}) EXCEPT
        !.localEpisodeCache = Upsert(@, e, CachePayload(episodePayload))]

\* the store answers the upsert of episodes with an error: the throw leaves
\* upsertEpisode before anything else is written
RejectedUpsert(st, e, episodePayload) == AddCalls(st, {"write"})

\* upsertEpisode(seriesSlug, seriesTitle, season, episode, episodePayload)
\* at time t; fail says where the store rejects a write
upsertEpisode(st, e, episodePayload, fail, t) ==
    IF fail = "episodes"
    THEN [st |-> RejectedUpsert(st, e, episodePayload), threw |-> TRUE]
    ELSE
      LET st1 == [st EXCEPT !.episodes = Upsert(@, e, episodePayload),
                            !.calls = @ \cup {"read", "write"}]
          serverCount == episodePayload.servers
          retries == st1.episode_retries
          currentRetryCount ==
              IF e \in DOMAIN retries THEN retries[e].retry_count ELSE 0
          retries2 ==
              IF serverCount = 1 THEN
                  IF currentRetryCount < RetryCap
                  THEN UpsertRetry(retries, e,
                                   t + RetryIntervals[currentRetryCount + 1],
                                   currentRetryCount)
                  ELSE retries
              ELSE IF serverCount > 1 THEN Delete(retries, e)
              ELSE retries
          st2 == saveCache(
                   [st1 EXCEPT
                      !.episode_retries = retries2,
                      !.localEpisodeCache = Upsert(@, e, CachePayload(episodePayload))],
                   fail)
      IN  IF fail = "latest" THEN [st |-> st2, threw |-> TRUE]
          ELSE [st |-> [st2 EXCEPT !.latest_episodes =
                           Upsert(@, e, [thumbnail |-> episodePayload.thumbnail,
                                         added_at |-> t])],
                threw |-> FALSE]

BackfillLocalCache_Skipped(cache, e) == cache

\* if (!localEpisodeCache[epKey]) localEpisodeCache[epKey] = { exists: true }
BackfillLocalCache(cache, e) ==
    IF e \in DOMAIN cache THEN cache ELSE Upsert(cache, e, CacheBackfill)

\* one pass through the body of the persistence loop of syncEpisodeByUrl,
\* up to and including upsertEpisode
PersistOnce(st, e, built, fail, t) ==
    LET serverCount == built.servers
        \* updateCheck carries no retry_count: (undefined || 0) + 1
        retries1 ==
            IF serverCount = 1
            THEN UpsertRetry(st.episode_retries, e, t + SyncRetryHours, 0 + 1)
            ELSE IF serverCount > 1 THEN Delete(st.episode_retries, e)
            ELSE st.episode_retries
    IN  upsertEpisode([st EXCEPT !.episode_retries = retries1], e, built, fail, t)

\* the attempts of the persistence loop of syncEpisodeByUrl
PersistAttempts == 3

RECURSIVE PersistLoop(_, _, _, _, _, _)
\* what follows upsertEpisode in the persistence loop: the exception leaves
\* the function, the row is found and counted, or the loop goes on
AfterUpsert(up, attempt, e, built, fail, t) ==
    IF up.threw THEN [st |-> up.st, outcome |-> "threw"]
    ELSE IF fail # "confirm" THEN [st |-> up.st, outcome |-> "synced"]
    ELSE IF attempt < PersistAttempts
    THEN PersistLoop(up.st, attempt + 1, e, built, fail, t)
    ELSE [st |-> up.st, outcome |-> "unconfirmed"]

\* for (let attempt = 1; attempt <= 3; attempt++) of syncEpisodeByUrl
PersistLoop(st, attempt, e, built, fail, t) ==
    AfterUpsert(PersistOnce(st, e, built, fail, t), attempt, e, built, fail, t)

\* the statistics of a synced item
CountSynced(r, isUpdate) ==
    IF r.outcome = "synced"
    THEN [r EXCEPT !.st = IncStat(@, IF isUpdate THEN "updatedEpisodes"
                                     ELSE "newEpisodes")]
    ELSE r

\* syncEpisodeByUrl(episodeUrl, hints) for the item e at time t; built is the
\* record buildEpisodeRecord assembles. The store reads back what was
\* written, so the persistence loop ends in its first attempt, unless fail
\* is "confirm": then episodeExistsInSupabase finds no row after any of
\* the attempts and the function returns nothing.
syncEpisodeByUrl(st, e, force, built, fail, t) ==
    IF e \in st.processedEpisodes /\ ~force
    THEN [st |-> st, outcome |-> "processed"]
    ELSE
      LET st1 == [st EXCEPT !.processedEpisodes = @ \cup {e}] IN
      IF e \in DOMAIN st1.localEpisodeCache /\ ~force
      THEN [st |-> IncStat(st1, "skippedEpisodes"), outcome |-> "cache-skip"]
      ELSE
        LET updateCheck == checkEpisodeNeedsUpdate(st1.episodes, e)
            st2 == AddCalls(st1, {"read"})
            hasScrapedThumbnail ==
                /\ updateCheck.exists
                /\ updateCheck.hasThumbnail
                /\ IsScrapedThumbnail(updateCheck.thumbnailUrl)
        IN
        IF /\ updateCheck.exists
           /\ ~updateCheck.needsUpdate
           /\ ~force
           /\ updateCheck.hasThumbnail
           /\ ~hasScrapedThumbnail
        THEN [st |-> IncStat(IF e \in DOMAIN st2.localEpisodeCache THEN st2
                             ELSE saveCache([st2 EXCEPT !.localEpisodeCache =
                                                BackfillLocalCache(@, e)],
                                            fail),
                             "skippedEpisodes"),
              outcome |-> "remote-skip"]
        ELSE IF fail = "build"
        THEN [st |-> AddCalls(st2, {"fetch"}), outcome |-> "threw"]
        ELSE
          LET isUpdate == IF force THEN updateCheck.exists
                          ELSE updateCheck.exists /\ updateCheck.needsUpdate
          IN  CountSynced(PersistLoop(AddCalls(st2, {"fetch"}), 1, e, built,
                                      fail, t),
                          isUpdate)

\* the rows processRetries selects: next_retry_at <= now, at most RetryBatch
DueRetries(retries, t) ==
    {e \in DOMAIN retries :
        retries[e].next_retry_at # NoTime /\ retries[e].next_retry_at <= t}

RetryQueue(retries, t) ==
    LET due == SelectSeq(ItemNames, LAMBDA e : e \in DueRetries(retries, t))
    IN  SubSeq(due, 1, IF Len(due) < RetryBatch THEN Len(due) ELSE RetryBatch)

\* the loop of processRetries: one forced sync per selected row; the
\* try/catch is around the loop, so the first throw ends it
RECURSIVE RetryLoop(_, _, _, _, _)
RetryLoop(st, queue, builds, fails, t) ==
    IF queue = <<>> THEN [st |-> st, resynced |-> {}]
    ELSE LET e == Head(queue)
             r == syncEpisodeByUrl(st, e, TRUE, builds[e], fails[e], t)
             rest == IF r.outcome = "threw" THEN [st |-> r.st, resynced |-> {}]
                     ELSE RetryLoop(r.st, Tail(queue), builds, fails, t)
         IN  [st |-> rest.st, resynced |-> {e} \cup rest.resynced]

StatsWithinCap(st) ==
    \A counter \in DOMAIN st.stats : st.stats[counter] <= MaxStat

\* the stores, cache and process state after an operation
SyAssign(st) ==
    /\ episodes' = st.episodes
    /\ episode_retries' = st.episode_retries
    /\ latest_episodes' = st.latest_episodes
    /\ localEpisodeCache' = st.localEpisodeCache
    /\ episodeCacheFile' = st.episodeCacheFile
    /\ processedEpisodes' = st.processedEpisodes
    /\ stats' = st.stats
    /\ syCalls' = st.calls

SyInit ==
    /\ now = 0
    /\ upstream \in [Items -> Built]
    /\ episodes = NoRows
    /\ episode_retries = NoRows
    /\ latest_episodes = NoRows
    /\ localEpisodeCache = NoRows
    /\ episodeCacheFile = NoRows
    /\ processedEpisodes = {}
    /\ syCalls = {}
    /\ stats = ZeroStats
    /\ settled = {}
    /\ syOp = [name |-> "start", item |-> Null, force |-> FALSE,
               outcome |-> "none", resynced |-> {}]

\* one call of syncEpisodeByUrl by a phase of the sync pass
SyncEpisodeByUrl(e, force, fail) ==
    LET r == syncEpisodeByUrl(SyState, e, force, upstream[e], fail, now) IN
    /\ SyFrame
    /\ StatsWithinCap(r.st)
    /\ SyAssign(r.st)
    /\ settled' = IF r.outcome \in {"cache-skip", "remote-skip", "synced"}
                  THEN settled \cup {e} ELSE settled
    /\ syOp' = [name |-> "syncEpisodeByUrl", item |-> e, force |-> force,
                outcome |-> r.outcome, resynced |-> {}]
    /\ UNCHANGED <<now, upstream>>

\* processRetries, step 0 of a sync pass
ProcessRetries ==
    LET queue == RetryQueue(episode_retries, now) IN
    \E fails \in [Range(queue) -> FailPoints] :
        LET r == RetryLoop(SyState, queue, upstream, fails, now) IN
        /\ SyFrame
        /\ StatsWithinCap(r.st)
        /\ SyAssign(r.st)
        /\ settled' = settled
        /\ syOp' = [name |-> "processRetries", item |-> Null, force |-> TRUE,
                    outcome |-> "none", resynced |-> r.resynced]
        /\ UNCHANGED <<now, upstream>>

\* the source site or TMDB now yields something else for the item
UpstreamChange(e) ==
    /\ SyFrame
    /\ \E built \in Built \ {upstream[e]} :
           upstream' = [upstream EXCEPT ![e] = built]
    /\ settled' = settled \ {e}
    /\ syOp' = [name |-> "upstream", item |-> e, force |-> FALSE,
                outcome |-> "none", resynced |-> {}]
    /\ UNCHANGED <<now, episodes, episode_retries, latest_episodes,
                   localEpisodeCache, episodeCacheFile, processedEpisodes,
                   stats, syCalls>>

\* time passes
Tick ==
    /\ SyFrame
    /\ now < MaxTicks * TickHours
    /\ now' = now + TickHours
    /\ syOp' = [name |-> "tick", item |-> Null, force |-> FALSE,
                outcome |-> "none", resynced |-> {}]
    /\ UNCHANGED <<upstream, episodes, episode_retries, latest_episodes,
                   localEpisodeCache, episodeCacheFile, processedEpisodes,
                   stats, syCalls, settled>>

\* the process is started again: module state is new, the cache file stays
NewProcess ==
    /\ SyFrame
    /\ processedEpisodes' = {}
    /\ stats' = ZeroStats
    /\ localEpisodeCache' = loadCache(episodeCacheFile)
    /\ syOp' = [name |-> "start", item |-> Null, force |-> FALSE,
                outcome |-> "none", resynced |-> {}]
    /\ UNCHANGED <<now, upstream, episodes, episode_retries, latest_episodes,
                   episodeCacheFile, settled, syCalls>>

\* ---- ensureSeriesComplete ----

\* the episodes of one series, in the order the source lists them
SeriesEpisodes == SubSeq(ItemNames, 1, NumEpisodes)

\* allEpisodeLinks: the episodes the source reports (the series page and
\* the season API), each with a valid built URL
AllEpisodeLinks(reported) == SelectSeq(SeriesEpisodes, LAMBDA e : e \in reported)

MissingEpisodes_All(links, existingEpisodes) == links

MissingEpisodes_None(links, existingEpisodes) == <<>>

\* missing = allEpisodeLinks.filter(link => !existingEpisodes.has(key))
MissingEpisodes(links, existingEpisodes) ==
    SelectSeq(links, LAMBDA e : e \notin existingEpisodes)

\* the loop over episodesToSync: one forced syncEpisodeByUrl per missing
\* episode; nothing catches inside the loop, so the first throw ends it
RECURSIVE BackfillFrom(_, _, _, _, _)
BackfillFrom(sofar, queue, builds, fails, t) ==
    IF queue = <<>> THEN sofar
    ELSE LET e == Head(queue)
             r == syncEpisodeByUrl(sofar.st, e, TRUE, builds[e], fails[e], t)
             next == [st |-> r.st, resynced |-> sofar.resynced \cup {e},
                      threw |-> r.outcome = "threw"]
         IN  IF next.threw THEN next
             ELSE BackfillFrom(next, Tail(queue), builds, fails, t)

BackfillLoop(st, queue, builds, fails, t) ==
    BackfillFrom([st |-> st, resynced |-> {}, threw |-> FALSE],
                 queue, builds, fails, t)

\* ensureSeriesComplete(seriesCtx) for the series of SeriesEpisodes, whose
\* row is in the series collection; pageFails: the fetch of the series
\* page fails
ensureSeriesComplete(st, builds, pageFails, fails, t) ==
    LET links == AllEpisodeLinks(DOMAIN builds)
        missing == MissingEpisodes(links, DOMAIN st.episodes)
        loop == BackfillLoop(st, missing, builds, fails, t)
    IN  IF pageFails
        THEN [st |-> IncStat(st, "failedEpisodes"), resynced |-> {},
              outcome |-> "threw"]
        ELSE IF links = <<>>
        THEN [st |-> st, resynced |-> {}, outcome |-> "no-episodes"]
        ELSE IF missing = <<>>
        THEN [st |-> st, resynced |-> {}, outcome |-> "all-synced"]
        ELSE IF loop.threw
        THEN [st |-> IncStat(loop.st, "failedEpisodes"),
              resynced |-> loop.resynced, outcome |-> "threw"]
        ELSE [st |-> loop.st, resynced |-> loop.resynced, outcome |-> "done"]

BackfillStatsWithinCap(st) ==
    /\ \A counter \in DOMAIN st.stats : st.stats[counter] <= NumEpisodes
    /\ st.stats.failedEpisodes <= MaxStat

\* what can go wrong in one pass: nothing, the fetch of the series page, or
\* the sync of one of the missing episodes at one of its fail points
BackfillFailures(missing) ==
    {[at |-> Null, point |-> "none"], [at |-> Null, point |-> "page"]}
    \cup {[at |-> e, point |-> p] : e \in missing, p \in FailPoints \ {"none"}}

\* one completeness pass over the series
EnsureSeriesComplete ==
    \E failure \in BackfillFailures(DOMAIN upstream \ DOMAIN episodes) :
        LET fails == [e \in DOMAIN upstream |->
                         IF e = failure.at THEN failure.point ELSE "none"]
            r == ensureSeriesComplete(SyState, upstream,
                                      failure.point = "page", fails, now)
        IN
        /\ SyFrame
        /\ BackfillStatsWithinCap(r.st)
        /\ SyAssign(r.st)
        /\ settled' = settled
        /\ syOp' = [name |-> "ensureSeriesComplete", item |-> Null,
                    force |-> TRUE, outcome |-> r.outcome,
                    resynced |-> r.resynced]
        /\ UNCHANGED <<now, upstream>>

\* partial functions from the episodes of the series
PartialOn(values) ==
    UNION {[S -> values] : S \in SUBSET Range(SeriesEpisodes)}

\* the source lists the episodes of a series from the first one on
SourceLists == {Range(SubSeq(SeriesEpisodes, 1, k)) : k \in 0..NumEpisodes}

\* what earlier passes stored: a complete record or one without servers
StoredBuilt ==
    {[servers |-> MaxServers, thumbnail |-> "tmdb"],
     [servers |-> 0, thumbnail |-> "none"]}

\* what the source yields for an episode during the pass
BackfillBuilt ==
    {[servers |-> MaxServers, thumbnail |-> "tmdb"],
     [servers |-> 1, thumbnail |-> "tmdb"]}

EmptyState ==
    [episodes |-> NoRows, episode_retries |-> NoRows,
     latest_episodes |-> NoRows, localEpisodeCache |-> NoRows,
     episodeCacheFile |-> NoRows,
     processedEpisodes |-> {}, stats |-> ZeroStats, calls |-> {}]

\* the stores and the cache file as an earlier process left them at hour
\* 0, after it synced the episodes of prior
PriorState(prior) ==
    LET nofail == [e \in DOMAIN prior |-> "none"]
        ran == BackfillLoop(EmptyState, AllEpisodeLinks(DOMAIN prior),
                            prior, nofail, 0).st
    IN  [ran EXCEPT !.processedEpisodes = {}, !.stats = ZeroStats, !.calls = {}]

\* a new process, some hours after an earlier one filled the store
BackfillInit ==
    /\ now = TickHours
    /\ upstream \in UNION {[S -> BackfillBuilt] : S \in SourceLists}
    /\ \E prior \in PartialOn(StoredBuilt) :
          LET st == PriorState(prior) IN
          /\ episodes = st.episodes
          /\ episode_retries = st.episode_retries
          /\ latest_episodes = st.latest_episodes
          /\ localEpisodeCache = st.localEpisodeCache
          /\ episodeCacheFile = st.episodeCacheFile
          /\ processedEpisodes = st.processedEpisodes
          /\ syCalls = {}
          /\ stats = st.stats
    /\ settled = {}
    /\ syOp = [name |-> "start", item |-> Null, force |-> FALSE,
               outcome |-> "none", resynced |-> {}]

BfNext == EnsureSeriesComplete

SyNext ==
    \/ \E e \in Items, force \in BOOLEAN, fail \in FailPoints :
           SyncEpisodeByUrl(e, force, fail)
    \/ ProcessRetries
    \/ \E e \in Items : UpstreamChange(e)
    \/ Tick
    \/ NewProcess

-----------------------------------------------------------------------------
(* Fetch layer: fetchHtmlWithRetry *)

\* CONFIG.maxRetries, the retries argument of every call
MaxRetries == 3

\* res.data of a successful response
Body == "body"

\* response statuses of the model
StatusCodes == {200, 399, 400, 500}

ValidateStatus_Below500(status) == status >= 200 /\ status < 500

\* validateStatus: (status) => status >= 200 && status < 400
ValidateStatus(status) == status >= 200 /\ status < 400

\* what axios.get rejects with: a response the status check refuses, or
\* a failure of the connection
HttpError(status) ==
    [code |-> "ERR_BAD_RESPONSE", status |-> status,
     message |-> IF status = 400 THEN "status 400" ELSE "status 500"]

\* ECONNABORTED is the code the HTTP client gives to the expiry of the
\* request's timeout option; ETIMEDOUT is the socket's own timeout
NetworkErrors ==
    {[code |-> "ECONNREFUSED", status |-> 0, message |-> "refused"],
     [code |-> "ETIMEDOUT", status |-> 0, message |-> "timed out"],
     [code |-> "ECONNABORTED", status |-> 0, message |-> "timeout exceeded"],
     [code |-> "ECONNRESET", status |-> 0, message |-> "reset"]}

\* JavaScript truthiness of currentProxy
IsProxy(proxy) == proxy \notin {Null, Undefined}

ShouldMarkFailed_Always(proxy, err) == IsProxy(proxy)

\* currentProxy && (err.code === "ECONNREFUSED" || err.code === "ETIMEDOUT")
ShouldMarkFailed(proxy, err) ==
    IsProxy(proxy) /\ err.code \in {"ECONNREFUSED", "ETIMEDOUT"}

LastErrAfter_First(lastErr, err) == IF lastErr = Null THEN err.message ELSE lastErr

\* lastErr = err
LastErrAfter(lastErr, err) == err.message

\* `Failed to fetch ${url}: ${lastErr?.message || "unknown error"}`
ThrownMessage(lastErr) == IF lastErr = Null THEN "unknown error" ELSE lastErr

FhIdle ==
    /\ fhPc = "idle"
    /\ fhAttempt = 0
    /\ fhProxy = Null
    /\ fhLastErr = Null
    /\ fhResult = Null
    /\ fhSent = 0
    /\ fhProxyCalls = 0
    /\ fhOks = 0
    /\ fhLastStatus = 0
    /\ fhErrors = <<>>

\* fetchHtmlWithRetry(url, CONFIG.maxRetries, options) is called
FetchHtmlWithRetry ==
    /\ FhFrame
    /\ pmOp # "constructor"
    /\ fhPc \in {"idle", "returned", "threw"}
    /\ fhPc' = IF 1 <= MaxRetries THEN "attempt" ELSE "threw"
    /\ fhAttempt' = 1
    /\ fhProxy' = Null
    /\ fhLastErr' = Null
    /\ fhResult' = IF 1 <= MaxRetries THEN Null ELSE ThrownMessage(Null)
    /\ fhSent' = 0
    /\ fhProxyCalls' = 0
    /\ fhOks' = 0
    /\ fhLastStatus' = 0
    /\ fhErrors' = <<>>
    /\ UNCHANGED pmVars

\* one pass through the try block up to the await of axios.get
FetchAttempt ==
    /\ FhFrame
    /\ fhPc = "attempt"
    /\ LET r == GetNextProxyResult
       IN  /\ fhProxy' = r.ret
           /\ lastProxy' = r.ret
           /\ currentIndex' = r.idx
           /\ failedProxies' = r.failed
    /\ pmOp' = "getNextProxy"
    /\ fhProxyCalls' = fhProxyCalls + 1
    /\ fhSent' = fhSent + 1
    /\ fhPc' = "sent"
    /\ UNCHANGED <<customProxies, validateCustomProxies, useProxy, proxies,
                   pmHealthy>>
    /\ UNCHANGED <<fhAttempt, fhLastErr, fhResult, fhOks, fhLastStatus, fhErrors>>

\* the catch block for err, the delay, and the loop test
FetchCatch(err) ==
    /\ fhLastErr' = LastErrAfter(fhLastErr, err)
    /\ fhErrors' = Append(fhErrors, err)
    /\ IF ShouldMarkFailed(fhProxy, err)
       THEN /\ failedProxies' = failedProxies \cup {fhProxy}
            /\ pmOp' = "markProxyAsFailed"
       ELSE UNCHANGED <<failedProxies, pmOp>>
    /\ fhAttempt' = fhAttempt + 1
    /\ IF fhAttempt + 1 <= MaxRetries
       THEN /\ fhPc' = "attempt"
            /\ fhResult' = fhResult
       ELSE /\ fhPc' = "threw"
            /\ fhResult' = ThrownMessage(LastErrAfter(fhLastErr, err))
    /\ UNCHANGED <<customProxies, validateCustomProxies, useProxy, proxies,
                   currentIndex, lastProxy, pmHealthy>>
    /\ UNCHANGED <<fhProxy, fhSent, fhProxyCalls>>

\* axios.get answers with a response
FetchResponse(status) ==
    /\ FhFrame
    /\ fhPc = "sent"
    /\ fhLastStatus' = status
    /\ fhOks' = fhOks + (IF status \in 200..399 THEN 1 ELSE 0)
    /\ IF ValidateStatus(status)
       THEN /\ fhPc' = "returned"
            /\ fhResult' = Body
            /\ UNCHANGED pmVars
            /\ UNCHANGED <<fhAttempt, fhProxy, fhLastErr, fhSent, fhProxyCalls,
                           fhErrors>>
       ELSE FetchCatch(HttpError(status))

\* axios.get fails without a response
FetchNetworkError(err) ==
    /\ FhFrame
    /\ fhPc = "sent"
    /\ UNCHANGED <<fhOks, fhLastStatus>>
    /\ FetchCatch(err)

FhNext ==
    \/ Initialize
    \/ FetchHtmlWithRetry
    \/ FetchAttempt
    \/ \E status \in StatusCodes : FetchResponse(status)
    \/ \E err \in NetworkErrors : FetchNetworkError(err)

-----------------------------------------------------------------------------
(* The sync pass: main *)

\* episodes the source site shows in a pass
NumCards == 2

\* passes of one process
MaxPasses == 2

Cards == SubSeq(ItemNames, 1, NumCards)

\* the phases of main, in the order main awaits them
AllPhases ==
    <<"processRetries", "pollHomepage", "updateSeriesFromLatestEpisodes",
      "auditLatestEpisodes", "auditAndUpdateEmptyServers", "printSummary">>

\* where the one failure of a phase happens: the build of an item fails
\* (a fetch or a resolution error), the store rejects its write, or the
\* store shows no row after each of its writes
PassFailPoints == {"build", "episodes", "confirm"}

PassFailures ==
    {[item |-> Null, point |-> "none"]}
        \cup [item : DOMAIN upstream, point : PassFailPoints]

FailsOf(failure) ==
    [e \in DOMAIN upstream |-> IF e = failure.item THEN failure.point ELSE "none"]

\* the item of the failure was written to a store that rejected the write
\* or did not show the row afterwards
StoreFailed(failure, attempted) ==
    failure.item \in attempted /\ failure.point \in {"episodes", "confirm"}

\* a loop of syncEpisodeByUrl calls over queue; catchEach: the call is
\* inside a try/catch of its own, otherwise the first throw ends the loop
RECURSIVE PassFrom(_, _, _, _, _, _, _)
PassFrom(sofar, queue, force, catchEach, builds, fails, t) ==
    IF queue = <<>> THEN sofar
    ELSE LET e == Head(queue)
             r == syncEpisodeByUrl(sofar.st, e, force, builds[e], fails[e], t)
             next == [st |-> r.st,
                      attempted |-> sofar.attempted
                          \cup (IF r.outcome \in {"threw", "unconfirmed", "synced"}
                                THEN {e} ELSE {}),
                      synced |-> sofar.synced
                          \cup (IF r.outcome = "synced" THEN {e} ELSE {}),
                      thrown |-> sofar.thrown
                          \cup (IF r.outcome = "threw" THEN {e} ELSE {})]
         IN  IF r.outcome = "threw" /\ ~catchEach THEN next
             ELSE PassFrom(next, Tail(queue), force, catchEach, builds, fails, t)

PassLoop(st, queue, force, catchEach, builds, fails, t) ==
    PassFrom([st |-> st, attempted |-> {}, synced |-> {}, thrown |-> {}],
             queue, force, catchEach, builds, fails, t)

\* the message of the error syncEpisodeByUrl throws at a failure point
\* holds "Failed to fetch" (fetchHtmlWithRetry) or "404"
IsFetchMessage(point) == point = "build"

RECURSIVE CountEach(_, _, _)
\* the catch block of the loop of auditAndUpdateEmptyServers, once for
\* every item that threw
CountEach(st, thrown, fails) ==
    IF thrown = {} THEN st
    ELSE LET e == CHOOSE x \in thrown : TRUE
         IN  CountEach(IncStat(st, IF IsFetchMessage(fails[e])
                                   THEN "skippedEpisodes"
                                   ELSE "failedEpisodes"),
                       thrown \ {e}, fails)

\* every phase of main is one try block whose catch logs the error
PhaseCatches_Rethrows(phase) == phase # "pollHomepage"

PhaseCatches(phase) == TRUE

MnIdle ==
    /\ mnPc = "idle"
    /\ mnPhases = <<>>
    /\ mnThrew = FALSE
    /\ mnLatest = FALSE
    /\ mnPasses = 0
    /\ mnStoreFailures = 0

PhaseEnd_Skips(phase, threw, next) ==
    /\ mnPhases' = Append(mnPhases, phase)
    /\ mnThrew' = mnThrew
    /\ mnPc' = IF phase = "pollHomepage" THEN "auditLatestEpisodes" ELSE next

\* the end of a phase: main goes on, or the exception leaves main
PhaseEnd(phase, threw, next) ==
    /\ mnPhases' = Append(mnPhases, phase)
    /\ IF threw /\ ~PhaseCatches(phase)
       THEN mnThrew' = TRUE /\ mnPc' = "aborted"
       ELSE mnThrew' = mnThrew /\ mnPc' = next

\* start() -> main(): proxyManager.initialize() with the proxy system off
Main ==
    /\ MnFrame
    /\ mnPc \in {"idle", "done", "aborted"}
    /\ mnPasses < MaxPasses
    /\ mnPasses' = mnPasses + 1
    /\ mnPc' = "processRetries"
    /\ mnPhases' = <<>>
    /\ mnThrew' = FALSE
    /\ mnLatest' = FALSE
    /\ syOp' = [name |-> "main", item |-> Null, force |-> FALSE,
                outcome |-> "none", resynced |-> {}]
    /\ UNCHANGED <<now, upstream, episodes, episode_retries, latest_episodes,
                   localEpisodeCache, episodeCacheFile, processedEpisodes,
                   stats, syCalls, settled,
                   mnStoreFailures>>

\* Step 0: processRetries()
MainProcessRetries ==
    /\ MnFrame
    /\ mnPc = "processRetries"
    /\ \E failure \in PassFailures :
         LET queue == RetryQueue(episode_retries, now)
             r == RetryLoop(SyState, queue, upstream, FailsOf(failure), now)
         IN  /\ SyAssign(r.st)
             /\ mnStoreFailures' = mnStoreFailures
                   + (IF StoreFailed(failure, r.resynced) THEN 1 ELSE 0)
             /\ PhaseEnd("processRetries",
                         failure.item \in r.resynced /\ failure.point # "confirm",
                         "pollHomepage")
             /\ syOp' = [name |-> "processRetries", item |-> failure.item,
                         force |-> TRUE, outcome |-> failure.point,
                         resynced |-> r.resynced]
    /\ UNCHANGED <<now, upstream, settled, mnLatest, mnPasses>>

\* Step 1: pollHomepage(); pageFails: fetchHomepageHtml throws
MainPollHomepage ==
    /\ MnFrame
    /\ mnPc = "pollHomepage"
    /\ \E failure \in PassFailures, pageFails \in BOOLEAN :
         LET cards == IF pageFails THEN <<>>
                      ELSE SelectSeq(Cards, LAMBDA e : e \in DOMAIN upstream)
             r == PassLoop(SyState, cards, FALSE, FALSE, upstream,
                           FailsOf(failure), now)
         IN  /\ pageFails => failure.point = "none"
             /\ SyAssign(r.st)
             /\ mnLatest' = (r.synced # {})
             /\ mnStoreFailures' = mnStoreFailures
                   + (IF StoreFailed(failure, r.attempted) THEN 1 ELSE 0)
             /\ PhaseEnd("pollHomepage", pageFails \/ r.thrown # {},
                         "updateSeriesFromLatestEpisodes")
             /\ syOp' = [name |-> "pollHomepage", item |-> failure.item,
                         force |-> FALSE, outcome |-> failure.point,
                         resynced |-> r.attempted]
    /\ UNCHANGED <<now, upstream, settled, mnPasses>>

\* Step 2: updateSeriesFromLatestEpisodes(latestSeriesSlugs); pageFails:
\* the fetch of the series page throws
MainUpdateSeries ==
    /\ MnFrame
    /\ mnPc = "updateSeriesFromLatestEpisodes"
    /\ \E failure \in PassFailures, pageFails \in BOOLEAN :
         LET r == IF mnLatest
                  THEN ensureSeriesComplete(SyState, upstream, pageFails,
                                            FailsOf(failure), now)
                  ELSE [st |-> SyState, resynced |-> {}, outcome |-> "none"]
         IN  /\ (pageFails \/ ~mnLatest) => failure.point = "none"
             /\ ~mnLatest => ~pageFails
             /\ SyAssign(r.st)
             /\ mnStoreFailures' = mnStoreFailures
                   + (IF StoreFailed(failure, r.resynced) THEN 1 ELSE 0)
             /\ PhaseEnd("updateSeriesFromLatestEpisodes", FALSE,
                         "auditLatestEpisodes")
             /\ syOp' = [name |-> "updateSeriesFromLatestEpisodes",
                         item |-> failure.item, force |-> TRUE,
                         outcome |-> r.outcome, resynced |-> r.resynced]
    /\ UNCHANGED <<now, upstream, settled, mnLatest, mnPasses>>

\* Step 3a: auditLatestEpisodes(): the rows of latest_episodes without a
\* row in episodes are synced again
MainAuditLatest ==
    /\ MnFrame
    /\ mnPc = "auditLatestEpisodes"
    /\ \E failure \in PassFailures :
         LET queue == SelectSeq(ItemNames,
                                LAMBDA e : /\ e \in DOMAIN latest_episodes
                                           /\ e \notin DOMAIN episodes
                                           /\ e \in DOMAIN upstream)
             r == PassLoop(SyState, queue, TRUE, FALSE, upstream,
                           FailsOf(failure), now)
         IN  /\ SyAssign(r.st)
             /\ mnStoreFailures' = mnStoreFailures
                   + (IF StoreFailed(failure, r.attempted) THEN 1 ELSE 0)
             /\ PhaseEnd("auditLatestEpisodes", r.thrown # {},
                         "auditAndUpdateEmptyServers")
             /\ syOp' = [name |-> "auditLatestEpisodes", item |-> failure.item,
                         force |-> TRUE, outcome |-> failure.point,
                         resynced |-> r.attempted]
    /\ UNCHANGED <<now, upstream, settled, mnLatest, mnPasses>>

\* Step 3b: auditAndUpdateEmptyServers(): the rows of episodes without a
\* server are synced again, each in a try/catch of its own
MainAuditEmptyServers ==
    /\ MnFrame
    /\ mnPc = "auditAndUpdateEmptyServers"
    /\ \E failure \in PassFailures :
         LET queue == SelectSeq(ItemNames,
                                LAMBDA e : /\ e \in DOMAIN episodes
                                           /\ episodes[e].servers = 0
                                           /\ e \in DOMAIN upstream)
             r == PassLoop(SyState, queue, TRUE, TRUE, upstream,
                           FailsOf(failure), now)
         IN  /\ SyAssign(CountEach(r.st, r.thrown, FailsOf(failure)))
             /\ mnStoreFailures' = mnStoreFailures
                   + (IF StoreFailed(failure, r.attempted) THEN 1 ELSE 0)
             /\ PhaseEnd("auditAndUpdateEmptyServers", FALSE, "printSummary")
             /\ syOp' = [name |-> "auditAndUpdateEmptyServers",
                         item |-> failure.item, force |-> TRUE,
                         outcome |-> failure.point, resynced |-> r.attempted]
    /\ UNCHANGED <<now, upstream, settled, mnLatest, mnPasses>>

\* printSummary(), and main returns
MainPrintSummary ==
    /\ MnFrame
    /\ mnPc = "printSummary"
    /\ PhaseEnd("printSummary", FALSE, "done")
    /\ syOp' = [name |-> "printSummary", item |-> Null, force |-> FALSE,
                outcome |-> "none", resynced |-> {}]
    /\ UNCHANGED <<now, upstream, episodes, episode_retries, latest_episodes,
                   localEpisodeCache, episodeCacheFile, processedEpisodes,
                   stats, syCalls, settled,
                   mnLatest, mnPasses, mnStoreFailures>>

\* what the source yields for an item of a pass
MainBuilt == {[servers |-> 2, thumbnail |-> "tmdb"],
              [servers |-> 1, thumbnail |-> "tmdb"],
              [servers |-> 0, thumbnail |-> "tmdb"]}

\* a fresh process; latest_episodes may hold a row whose episode row is gone
MainInit ==
    /\ now = TickHours
    /\ upstream \in [Range(Cards) -> MainBuilt]
    /\ episodes = NoRows
    /\ episode_retries = NoRows
    /\ \E orphans \in SUBSET {Cards[NumCards]} :
         latest_episodes = [e \in orphans |-> [thumbnail |-> "tmdb", added_at |-> 0]]
    /\ localEpisodeCache = NoRows
    /\ episodeCacheFile = NoRows
    /\ processedEpisodes = {}
    /\ syCalls = {}
    /\ stats = ZeroStats
    /\ settled = {}
    /\ syOp = [name |-> "start", item |-> Null, force |-> FALSE,
               outcome |-> "none", resynced |-> {}]

MnNext ==
    \/ Main
    \/ MainProcessRetries
    \/ MainPollHomepage
    \/ MainUpdateSeries
    \/ MainAuditLatest
    \/ MainAuditEmptyServers
    \/ MainPrintSummary
    \/ Tick

-----------------------------------------------------------------------------
(* The server: sync-server.js *)

\* triggers (startup, cron, GET /sync) over the life of the server
MaxTriggers == 5

RunSync_NoGuard(status) ==
    [started |-> TRUE,
     status |-> [status EXCEPT !.isRunning = TRUE, !.totalRuns = @ + 1]]

\* runSync() up to its await of runSyncScript()
RunSync(status) ==
    IF status.isRunning
    THEN [started |-> FALSE, status |-> status]
    ELSE [started |-> TRUE,
          status |-> [status EXCEPT !.isRunning = TRUE, !.totalRuns = @ + 1]]

SvIdle ==
    /\ syncStatus = [isRunning |-> FALSE, lastRunSuccess |-> Null,
                     totalRuns |-> 0, successfulRuns |-> 0, failedRuns |-> 0]
    /\ svListening = FALSE
    /\ svActive = 0
    /\ svTriggers = 0
    /\ svResponse = Null
    /\ svOp = "load"

\* a trigger calls runSync()
SvTrigger(name) ==
    LET r == RunSync(syncStatus) IN
    /\ svTriggers < MaxTriggers
    /\ svTriggers' = svTriggers + 1
    /\ syncStatus' = r.status
    /\ svActive' = svActive + (IF r.started THEN 1 ELSE 0)
    /\ svOp' = name

\* the callback of app.listen: "Running initial sync..."
Listen ==
    /\ SvFrame
    /\ ~svListening
    /\ svListening' = TRUE
    /\ SvTrigger("listen")
    /\ UNCHANGED svResponse

\* the callback of cron.schedule
CronSchedule ==
    /\ SvFrame
    /\ SvTrigger("cron")
    /\ UNCHANGED <<svListening, svResponse>>

\* app.get("/sync")
GetSync ==
    /\ SvFrame
    /\ svListening
    /\ IF syncStatus.isRunning
       THEN /\ svResponse' = "already_running"
            /\ svTriggers < MaxTriggers
            /\ svTriggers' = svTriggers + 1
            /\ svOp' = "GET /sync"
            /\ UNCHANGED <<syncStatus, svActive>>
       ELSE /\ svResponse' = "triggered"
            /\ SvTrigger("GET /sync")
    /\ UNCHANGED svListening

RunSyncRest_ClearsInTry(status, threw) ==
    [status EXCEPT
       !.lastRunSuccess = IF threw THEN "false" ELSE "true",
       !.successfulRuns = IF threw THEN @ ELSE @ + 1,
       !.failedRuns = IF threw THEN @ + 1 ELSE @,
       !.isRunning = IF threw THEN @ ELSE FALSE]

\* runSync() after its await of runSyncScript(): the rest of the try block
\* or the catch block, then the finally block
RunSyncRest(status, threw) ==
    [status EXCEPT
       !.lastRunSuccess = IF threw THEN "false" ELSE "true",
       !.successfulRuns = IF threw THEN @ ELSE @ + 1,
       !.failedRuns = IF threw THEN @ + 1 ELSE @,
       !.isRunning = FALSE]

\* runSyncScript() settles: the rest of runSync, finally included
RunSyncSettled(threw) ==
    /\ SvFrame
    /\ svActive > 0
    /\ svActive' = svActive - 1
    /\ syncStatus' = RunSyncRest(syncStatus, threw)
    /\ svOp' = "settled"
    /\ UNCHANGED <<svListening, svTriggers, svResponse>>

SvNext ==
    \/ Listen
    \/ CronSchedule
    \/ GetSync
    \/ \E threw \in BOOLEAN : RunSyncSettled(threw)

-----------------------------------------------------------------------------
(* A process that starts on the stores of an earlier deployment *)

\* the rows an earlier deployment can have left in episodes: any number of
\* servers, no thumbnail, a TMDB image or an image scraped from the site
LegacyRows == [servers : 0..MaxServers, thumbnail : {"none", "tmdb", "scraped"}]

\* the remote store is kept, the disk with the cache file is new
LegacyInit ==
    /\ now = 0
    /\ upstream \in [Items -> Built]
    /\ episodes \in UNION {[S -> LegacyRows] : S \in SUBSET Items}
    /\ episode_retries = NoRows
    /\ latest_episodes = NoRows
    /\ localEpisodeCache = NoRows
    /\ episodeCacheFile = NoRows
    /\ processedEpisodes = {}
    /\ syCalls = {}
    /\ stats = ZeroStats
    /\ settled = {}
    /\ syOp = [name |-> "start", item |-> Null, force |-> FALSE,
               outcome |-> "none", resynced |-> {}]

LegacyNext ==
    \/ \E e \in Items, force \in BOOLEAN, fail \in FailPoints :
           SyncEpisodeByUrl(e, force, fail)
    \/ NewProcess

\* ---- upsertEpisode on its own ----

\* the message of the Error that left upsertEpisode
UpsertError(fail) ==
    IF fail = "episodes" THEN "episode upsert failed" ELSE "latest upsert failed"

\* one call of upsertEpisode with a record of the item
UpsertEpisode(e, episodePayload, fail) ==
    LET r == upsertEpisode(SyState, e, episodePayload, fail, now) IN
    /\ SyFrame
    /\ SyAssign(r.st)
    /\ syOp' = [name |-> "upsertEpisode", item |-> e, force |-> FALSE,
                outcome |-> IF r.threw THEN UpsertError(fail) ELSE "upserted",
                resynced |-> {}]
    /\ UNCHANGED <<now, upstream, settled>>

UpsertNext ==
    \/ \E e \in Items, episodePayload \in Built,
          fail \in {"none", "episodes", "latest"} :
           UpsertEpisode(e, episodePayload, fail)
    \/ Tick

\* ---- resolveSeriesContext and syncSeries ----

\* cap on a statistics counter in the syncs of a series
MaxSeriesStat == 2

\* the episode links of the series page, in page order
SeriesLinks(builds) == SelectSeq(ItemNames, LAMBDA e : e \in DOMAIN builds)

\* syncSeries(seriesUrl, {force: true}) as resolveSeriesContext calls it: the
\* series row is upserted, then every episode link of the series page is
\* synced with the force of the options, each call in a try/catch of its own
syncSeries(st, builds, fails, t) ==
    PassLoop(AddCalls(st, {"fetch", "write"}), SeriesLinks(builds), TRUE, TRUE,
             builds, fails, t)

\* calls of upsertEpisode that returned in one syncEpisodeByUrl
UpsertsOf(outcome) ==
    IF outcome = "synced" THEN 1
    ELSE IF outcome = "unconfirmed" THEN PersistAttempts
    ELSE 0

\* buildEpisodeRecord reaches resolveSeriesContext: the call is neither
\* skipped nor does the fetch of the episode page throw
ReachesSeries(outcome, fail) ==
    outcome \notin {"processed", "cache-skip", "remote-skip"} /\ fail # "build"

\* syncEpisodeByUrl with the series of the item resolved by
\* resolveSeriesContext: known, the series is in seriesCache or in the store
\* and the call is syncEpisodeByUrl as above; not known, syncSeries runs
\* inside buildEpisodeRecord, after updateCheck was read and before the
\* record of the item is upserted
syncEpisodeInSeries(st, e, force, builds, known, seriesFails, innerFails, fail, t) ==
    LET plain == syncEpisodeByUrl(st, e, force, builds[e], fail, t) IN
    IF known \/ ~ReachesSeries(plain.outcome, fail)
    THEN [st |-> plain.st, outcome |-> plain.outcome,
          upserts |-> UpsertsOf(plain.outcome), stored |-> FALSE]
    ELSE
      LET st1 == AddCalls([st EXCEPT !.processedEpisodes = @ \cup {e}],
                          {"read", "fetch"})
          updateCheck == checkEpisodeNeedsUpdate(st.episodes, e)
          isUpdate == IF force THEN updateCheck.exists
                      ELSE updateCheck.exists /\ updateCheck.needsUpdate
      IN
      IF seriesFails
      THEN [st |-> AddCalls(st1, {"write"}), outcome |-> "threw",
            upserts |-> 0, stored |-> FALSE]
      ELSE
        LET inner == syncSeries(st1, builds, innerFails, t)
            outer == CountSynced(PersistLoop(inner.st, 1, e, builds[e], fail, t),
                                 isUpdate)
        IN  [st |-> outer.st, outcome |-> outer.outcome,
             upserts |-> (IF e \in inner.synced THEN 1 ELSE 0)
                            + UpsertsOf(outer.outcome),
             stored |-> TRUE]

SeIdle ==
    /\ series = FALSE
    /\ seriesCache = FALSE
    /\ seUpserts = 0

\* syncEpisodeByUrl(episodeUrl, hints) of an item whose series
\* resolveSeriesContext looks up; seriesFails: the upsert of the series row
\* is rejected; innerFails: where the syncs inside syncSeries fail
SyncEpisodeInSeries(e, force, seriesFails, innerFails, fail) ==
    LET r == syncEpisodeInSeries(SyState, e, force, upstream,
                                 seriesCache \/ series, seriesFails,
                                 innerFails, fail, now)
    IN
    /\ SeFrame
    /\ \A counter \in DOMAIN r.st.stats : r.st.stats[counter] <= MaxSeriesStat
    /\ SyAssign(r.st)
    /\ series' = (series \/ r.stored)
    /\ seriesCache' = (seriesCache \/ r.stored
                          \/ (series /\ ReachesSeries(r.outcome, fail)))
    /\ seUpserts' = r.upserts
    /\ settled' = IF r.outcome \in {"cache-skip", "remote-skip", "synced"}
                  THEN settled \cup {e} ELSE settled
    /\ syOp' = [name |-> "syncEpisodeByUrl", item |-> e, force |-> force,
                outcome |-> r.outcome, resynced |-> {}]
    /\ UNCHANGED <<now, upstream>>

\* the process is started again: the Map seriesCache is new
SeriesNewProcess ==
    /\ SeFrame
    /\ processedEpisodes' = {}
    /\ stats' = ZeroStats
    /\ localEpisodeCache' = loadCache(episodeCacheFile)
    /\ seriesCache' = FALSE
    /\ seUpserts' = 0
    /\ syOp' = [name |-> "start", item |-> Null, force |-> FALSE,
                outcome |-> "none", resynced |-> {}]
    /\ UNCHANGED <<now, upstream, episodes, episode_retries, latest_episodes,
                   episodeCacheFile, settled, syCalls, series>>

SeriesNext ==
    \/ \E e \in Items, force, seriesFails \in BOOLEAN,
          innerFails \in [Items -> FailPoints], fail \in FailPoints :
           SyncEpisodeInSeries(e, force, seriesFails, innerFails, fail)
    \/ SeriesNewProcess
    \/ Tick

\* ---- extractEmbeds ----

MaxPlayerOptions == 2   \* player option elements of a page
MaxNume == 1            \* largest data-nume of a player option
MaxIframes == 2         \* iframe elements of a page

\* data-type of a player option: absent ("") or given
DataTypes == {"", "2", "1"}

\* the player option elements that carry data-post and data-nume
PlayerOptions == [nume : 0..MaxNume, type : DataTypes]

\* trtype=${type || '2'}
TrType(type) == IF type = "" THEN "2" ELSE type

\* the constructed intermediate reference of a player option
TrembedUrl(nume, type) ==
    IF TrType(type) = "2" THEN TrembedType2[nume + 1] ELSE TrembedType1[nume + 1]

\* the URLs that the other elements of an episode page carry, normalised
ExUrls == {TrembedType2[1], "ext/?trembed=1", "host/embed/x", "ts/p0"}

SeqsUpTo(S, n) == UNION {[1..k -> S] : k \in 0..n}

\* extractEmbeds, step 3: isExternal of an iframe source
IsExternal(u) == ~InclToonstream(u) /\ ~InclTrembed(u) /\ ~InclTrid(u)

\* the set seen: every push adds its URL
SeenOf(options) == {options[i].url : i \in DOMAIN options}

\* option: parseInt(nume) + 1 of a player option
PlayerOrdinal(options, nume) == nume + 1

RECURSIVE PlayerOptionsFrom(_, _)
\* step 1: the player options become constructed trembed URLs
PlayerOptionsFrom(options, els) ==
    IF els = <<>> THEN options
    ELSE LET el == Head(els)
             trembedUrl == TrembedUrl(el.nume, el.type)
         IN  IF trembedUrl \notin SeenOf(options)
             THEN PlayerOptionsFrom(
                      Append(options, [url |-> trembedUrl, direct |-> FALSE,
                                       option |-> PlayerOrdinal(options, el.nume)]),
                      Tail(els))
             ELSE PlayerOptionsFrom(options, Tail(els))

RECURSIVE SourceOptionsFrom(_, _)
\* step 2: elements whose URL includes 'trembed' are taken as they are
SourceOptionsFrom(options, urls) ==
    IF urls = <<>> THEN options
    ELSE LET url == Head(urls) IN
         IF InclTrembed(url) /\ url \notin SeenOf(options)
         THEN SourceOptionsFrom(
                  Append(options, [url |-> url, direct |-> FALSE,
                                   option |-> Len(options) + 1]),
                  Tail(urls))
         ELSE SourceOptionsFrom(options, Tail(urls))

RECURSIVE IframeOptionsFrom(_, _)
\* step 3: the iframes, external ones as directUrl, the others as trembedUrl
IframeOptionsFrom(options, urls) ==
    IF urls = <<>> THEN options
    ELSE LET url == Head(urls) IN
         IF url \notin SeenOf(options)
         THEN IframeOptionsFrom(
                  Append(options, [url |-> url, direct |-> IsExternal(url),
                                   option |-> Len(options) + 1]),
                  Tail(urls))
         ELSE IframeOptionsFrom(options, Tail(urls))

\* serverOptions after the three steps
CollectServerOptions(player, sources, iframes) ==
    IframeOptionsFrom(SourceOptionsFrom(PlayerOptionsFrom(<<>>, player), sources),
                      iframes)

\* extractEmbeds: the test under which a resolved URL is pushed to embeds
KeepsResolved(realVideoUrl, trembedUrl) ==
    /\ realVideoUrl # Null
    /\ realVideoUrl # trembedUrl
    /\ ~InclToonstream(realVideoUrl)
    /\ ~InclTrembed(realVideoUrl)

\* what extractRealVideoUrl yields for a candidate: nothing, an external
\* player, a same-site page
ResolveResults == {Null, "host/embed/x", "ts/p0"}

RECURSIVE EmbedsFrom(_, _, _)
\* the loop over serverOptions: a directUrl is pushed as it is, a trembedUrl
\* is resolved and pushed when the result passes the test
EmbedsFrom(acc, options, results) ==
    IF options = <<>> THEN acc
    ELSE LET server == Head(options)
             realVideoUrl == results[server.url]
         IN  IF server.direct
             THEN EmbedsFrom(Append(acc, [url |-> server.url, option |-> server.option,
                                          intermediate_url |-> Null]),
                             Tail(options), results)
             ELSE IF KeepsResolved(realVideoUrl, server.url)
             THEN EmbedsFrom(Append(acc, [url |-> realVideoUrl, option |-> server.option,
                                          intermediate_url |-> server.url]),
                             Tail(options), results)
             ELSE EmbedsFrom(acc, Tail(options), results)

ExIdle ==
    /\ embeds = <<>>
    /\ exPc = "done"
    /\ exPlayer = <<>>
    /\ exSources = <<>>
    /\ exIframes = <<>>
    /\ serverOptions = <<>>

\* an episode page as cheerio loads it
ExInit ==
    /\ exPc = "page"
    /\ exPlayer \in SeqsUpTo(PlayerOptions, MaxPlayerOptions)
    /\ exSources \in SeqsUpTo(ExUrls, 1)
    /\ exIframes \in SeqsUpTo(ExUrls, MaxIframes)
    /\ serverOptions = <<>>
    /\ embeds = <<>>

\* the candidates of options that are handed to extractRealVideoUrl
TrembedUrlsOf(options) == {options[i].url : i \in {j \in DOMAIN options : ~options[j].direct}}

ResolveAll(options, results) == EmbedsFrom(<<>>, options, results)

\* extractEmbeds(html, episodeUrl)
ExtractEmbeds ==
    /\ ExFrame
    /\ exPc = "page"
    /\ serverOptions' = CollectServerOptions(exPlayer, exSources, exIframes)
    /\ \E results \in [TrembedUrlsOf(serverOptions') -> ResolveResults] :
          embeds' = ResolveAll(serverOptions', results)
    /\ exPc' = "done"
    /\ UNCHANGED <<exPlayer, exSources, exIframes>>

ExNext == ExtractEmbeds

\* ---- the episode cache and its file ----

\* where one sync can fail, a failing write of the cache file included
CacheFailPoints == FailPoints \cup DiskFailures

CacheNext ==
    \/ \E e \in Items, force \in BOOLEAN, fail \in CacheFailPoints :
           SyncEpisodeByUrl(e, force, fail)
    \/ \E e \in Items : UpstreamChange(e)
    \/ NewProcess

-----------------------------------------------------------------------------
(* Specifications *)

\* the ProxyManager with no proxy configured and proxying off
PmIdle ==
    /\ customProxies = <<>>
    /\ validateCustomProxies = TRUE
    /\ useProxy = FALSE
    /\ proxies = <<>>
    /\ currentIndex = 0
    /\ failedProxies = {}
    /\ lastProxy = Null
    /\ pmOp = "constructor"
    /\ pmHealthy = {}

\* no resolution in progress
RsIdle ==
    /\ rsPc = "done"
    /\ rsUrl = Null
    /\ rsDepth = 0
    /\ visited = {}
    /\ fetched = <<>>
    /\ rsFetch = "none"
    /\ rsDirect = Null
    /\ rsIframe = Null
    /\ rsHasIframe = FALSE
    /\ rsResult = Null
    /\ rsCycle = FALSE
    /\ rsChain = TRUE

\* no item known, nothing stored
SyIdle ==
    /\ now = 0
    /\ upstream = NoRows
    /\ episodes = NoRows
    /\ episode_retries = NoRows
    /\ latest_episodes = NoRows
    /\ localEpisodeCache = NoRows
    /\ episodeCacheFile = NoRows
    /\ processedEpisodes = {}
    /\ syCalls = {}
    /\ stats = ZeroStats
    /\ settled = {}
    /\ syOp = [name |-> "start", item |-> Null, force |-> FALSE,
               outcome |-> "none", resynced |-> {}]

\* the ProxyManager over any number of sync runs of one process
InitProxy == PmInit /\ RsIdle /\ SyIdle /\ FhIdle /\ MnIdle /\ SvIdle /\ ExIdle /\ SeIdle

SpecProxy == InitProxy /\ [][PmNext]_vars

\* one top-level call of extractRealVideoUrl
InitResolve == PmIdle /\ RsInit /\ SyIdle /\ FhIdle /\ MnIdle /\ SvIdle /\ ExIdle /\ SeIdle

SpecResolve == InitResolve /\ [][RsNext]_vars

\* every await of resolve completes: each fetch answers or fails in time
SpecResolveFair == SpecResolve /\ WF_vars(RsNext)


\* the orchestrator over any number of sync passes and processes
InitSync == PmIdle /\ RsIdle /\ SyInit /\ FhIdle /\ MnIdle /\ SvIdle /\ ExIdle /\ SeIdle

SpecSync == InitSync /\ [][SyNext]_vars

\* completeness passes over one series
InitBackfill == PmIdle /\ RsIdle /\ BackfillInit /\ FhIdle /\ MnIdle /\ SvIdle /\ ExIdle /\ SeIdle

\* calls of fetchHtmlWithRetry over the sync passes of one process
InitFetch == PmInit /\ RsIdle /\ SyIdle /\ FhIdle /\ MnIdle /\ SvIdle /\ ExIdle /\ SeIdle

SpecFetch == InitFetch /\ [][FhNext]_vars

\* the sync passes of one process, the proxy system off
InitMain == PmIdle /\ RsIdle /\ MainInit /\ FhIdle /\ MnIdle /\ SvIdle /\ ExIdle /\ SeIdle

SpecMain == InitMain /\ [][MnNext]_vars

\* syncEpisodeByUrl on the stores of an earlier deployment
InitLegacy == PmIdle /\ RsIdle /\ LegacyInit /\ FhIdle /\ MnIdle /\ SvIdle /\ ExIdle /\ SeIdle

SpecLegacy == InitLegacy /\ [][LegacyNext]_vars

\* syncEpisodeByUrl over processes whose cache file can fail to be written
InitCache == PmIdle /\ RsIdle /\ SyInit /\ FhIdle /\ MnIdle /\ SvIdle /\ ExIdle /\ SeIdle

SpecCache == InitCache /\ [][CacheNext]_vars

\* extractEmbeds over the episode pages of the model
InitExtract == PmIdle /\ RsIdle /\ SyIdle /\ FhIdle /\ MnIdle /\ SvIdle /\ ExInit /\ SeIdle

SpecExtract == InitExtract /\ [][ExNext]_vars

\* calls of upsertEpisode as time passes
InitUpsert == PmIdle /\ RsIdle /\ SyInit /\ FhIdle /\ MnIdle /\ SvIdle /\ ExIdle /\ SeIdle

SpecUpsert == InitUpsert /\ [][UpsertNext]_vars

\* syncs of the items of a series the store does not hold yet
InitSeries == PmIdle /\ RsIdle /\ SyInit /\ FhIdle /\ MnIdle /\ SvIdle /\ ExIdle /\ SeIdle

SpecSeries == InitSeries /\ [][SeriesNext]_vars

\* the server from its start
InitServer == PmIdle /\ RsIdle /\ SyIdle /\ FhIdle /\ MnIdle /\ SvIdle /\ ExIdle /\ SeIdle

SpecServer == InitServer /\ [][SvNext]_vars

\* the promise of runSyncScript() settles: main awaits a fixed sequence of
\* phases whose loops are bounded, and the continuation of a settled
\* promise is run by the event loop
SpecServerFair ==
    SpecServer /\ WF_vars(\E threw \in BOOLEAN : RunSyncSettled(threw))

SpecBackfill == InitBackfill /\ [][BfNext]_vars

-----------------------------------------------------------------------------
(* Properties of the ProxyManager *)

PoolEnabled == useProxy /\ Len(proxies) >= 1

AllTombstoned == Range(proxies) \subseteq failedProxies

\* 1-based position of the k-th entry at or after the cursor, cyclically
CyclicPos(k) == ((currentIndex + k) % Len(proxies)) + 1

LiveOffsets ==
    {k \in 0..(Len(proxies) - 1) : proxies[CyclicPos(k)] \notin failedProxies}

FirstLiveOffset == CHOOSE k \in LiveOffsets : \A j \in LiveOffsets : k <= j

\* C1 (proxy pool liveness): on an enabled pool of K >= 1 entries whose
\* entries have all been marked failed, the next getNextProxy() returns an
\* entry of the pool and leaves the tombstone set empty.
C1_PoolLiveness ==
    [][(pmOp' = "getNextProxy" /\ PoolEnabled /\ AllTombstoned)
         => (lastProxy' \in Range(proxies) /\ failedProxies' = {})]_vars

\* C2 (round-robin selection): while some pool entry is not tombstoned,
\* getNextProxy() returns the first non-tombstoned entry at or after the
\* cursor in cyclic order, moves the cursor just past it and leaves the
\* tombstone set unchanged; when every entry is tombstoned it clears the
\* tombstones and returns the first pool entry.
C2_RoundRobinNext ==
    [][(pmOp' = "getNextProxy" /\ PoolEnabled)
         => IF AllTombstoned
            THEN /\ failedProxies' = {}
                 /\ lastProxy' = proxies[1]
            ELSE /\ lastProxy' = proxies[CyclicPos(FirstLiveOffset)]
                 /\ lastProxy' \notin failedProxies
                 /\ currentIndex' = CyclicPos(FirstLiveOffset) % Len(proxies)
                 /\ failedProxies' = failedProxies]_vars

-----------------------------------------------------------------------------
(* Properties of the resolution engine *)

LastFetched == fetched[Len(fetched)]

\* C3 (cycle safety): whatever the documents refer to, themselves and
\* visited pages included, one top-level call terminates and hands at most
\* maxDepth + 1 URLs to the Fetch Layer, with maxDepth = embedMaxDepth + 2.
C3_CycleSafety ==
    /\ [](Len(fetched) <= (EmbedMaxDepth + 2) + 1)
    /\ <>(rsPc = "done")

\* a run that met a cycle and still used the whole fetch budget
C3_Witness ==
    /\ rsPc = "done"
    /\ rsCycle
    /\ Len(fetched) = (EmbedMaxDepth + 2) + 1

\* the run so far walked a chain of same-site pages, each document holding
\* nothing but one iframe to a page not seen before, every fetch succeeding
OnSameSiteChain ==
    /\ rsChain
    /\ fetched # <<>>
    /\ Range(fetched) \subseteq TsPages

\* C4 (depth bound): on a chain of more than maxDepth distinct same-site
\* pages, each embedding the next through an iframe, every fetch succeeding,
\* the call terminates and returns the frontier URL (the page fetched at the
\* depth cutoff), which is not null.
C4_DepthBound ==
    /\ []((rsPc = "done" /\ OnSameSiteChain)
            => /\ rsResult # Null
               /\ rsResult = LastFetched
               /\ Len(fetched) = (EmbedMaxDepth + 2) + 1)
    /\ <>(rsPc = "done")

\* the cutoff was hit: the frontier page still embeds a further page
C4_Witness ==
    /\ rsPc = "done"
    /\ OnSameSiteChain
    /\ rsDepth = EmbedMaxDepth + 2
    /\ rsIframe \in TsPages
    /\ rsResult = rsUrl

\* C5 as claimed (direct-media short-circuit): a fetched document that holds
\* both a direct media element with a non-blob URL and an iframe makes
\* resolve return the direct media URL without following anything.
C5_DirectMediaAlways ==
    (rsFetch = "ok" /\ rsDirect # Null /\ rsHasIframe /\ rsPc \in {"call", "done"})
        => (rsPc = "done" /\ rsResult = rsDirect)

\* C5 as amended: the short-circuit applies when the first direct media URL
\* with a non-blob source matches the isVideoUrl classifier; then resolve
\* returns it at once and the document's iframe is never fetched.
C5_DirectMediaClassified ==
    (rsFetch = "ok" /\ IsVideoUrl(rsDirect) /\ rsHasIframe)
        => /\ rsPc = "done"
           /\ rsResult = rsDirect
           /\ LastFetched = rsUrl

C5_Witness ==
    /\ rsFetch = "ok"
    /\ IsVideoUrl(rsDirect)
    /\ rsIframe \in TsPages
    /\ rsDepth < EmbedMaxDepth + 2
    /\ rsPc = "done"

-----------------------------------------------------------------------------
(* Properties of the sync orchestrator *)

\* the step is a call of syncEpisodeByUrl
SyncStep == syOp'.name = "syncEpisodeByUrl"

\* the step is a call of syncEpisodeByUrl that built and stored the record
SyncedStep == SyncStep /\ syOp'.outcome = "synced"

StoredStateUnchanged ==
    UNCHANGED <<episodes, episode_retries, latest_episodes, localEpisodeCache>>

\* C6 (orchestrator idempotence): an unforced syncEpisodeByUrl of an item
\* that was already synced or skipped, with nothing changed upstream since,
\* leaves episode record, retry entry, latest entry and local cache as they
\* were, builds and upserts nothing, and counts the item as skipped.
C6_SecondRunSkips ==
    [][(SyncStep /\ ~syOp'.force /\ syOp'.item \in settled)
         => /\ StoredStateUnchanged
            /\ syOp'.outcome \in {"processed", "cache-skip", "remote-skip"}
            /\ stats'.skippedEpisodes = stats.skippedEpisodes + 1]_vars

\* C7 (retry scheduling): a sync that resolves to exactly 1 server for an
\* item without a retry entry leaves an entry with attempt count 0 due at
\* now + 3h; a sync that resolves to 2 or more servers leaves no entry.
C7_RetryScheduling ==
    [][SyncedStep
         => LET e == syOp'.item IN
            /\ (upstream[e].servers = 1 /\ e \notin DOMAIN episode_retries)
                 => /\ e \in DOMAIN episode_retries'
                    /\ episode_retries'[e].retry_count = 0
                    /\ episode_retries'[e].retry_at = now + 3
            /\ upstream[e].servers >= 2 => e \notin DOMAIN episode_retries']_vars

\* C8 (backoff progression): a sync that again resolves to exactly 1 server
\* for an item whose entry holds attempt count c < 3 schedules the retry at
\* now plus the c-th element of (3h, 5h, 10h) and advances the count.
C8_BackoffProgression ==
    [][(SyncedStep /\ upstream[syOp'.item].servers = 1
          /\ syOp'.item \in DOMAIN episode_retries
          /\ episode_retries[syOp'.item].retry_count < 3)
         => LET e == syOp'.item
                c == episode_retries[e].retry_count
            IN  /\ e \in DOMAIN episode_retries'
                /\ episode_retries'[e].retry_at = now + <<3, 5, 10>>[c + 1]
                /\ episode_retries'[e].retry_count = c + 1]_vars

\* C10 (due retries are processed): processRetries re-syncs, with force,
\* every entry the orchestrator wrote whose next-attempt time has passed.
C10_DueRetriesProcessed ==
    [][syOp'.name = "processRetries"
         => \A e \in DOMAIN episode_retries :
                episode_retries[e].retry_at <= now => e \in syOp'.resynced]_vars

-----------------------------------------------------------------------------
(* Properties of the completeness pass *)

\* the step is a run of ensureSeriesComplete in which nothing threw
BackfillStep ==
    /\ syOp'.name = "ensureSeriesComplete"
    /\ syOp'.outcome \in {"done", "all-synced"}

\* C11 (backfill completeness): with every fetch and write succeeding, one
\* run of ensureSeriesComplete leaves the store with the episodes it held
\* plus every episode the source reports (source {1,2,3}, store {1,2}:
\* exactly {1,2,3}), and the records it already held are neither written
\* nor changed.
C11_BackfillCompleteness ==
    [][BackfillStep
         => /\ DOMAIN episodes' = DOMAIN episodes \cup DOMAIN upstream
            /\ syOp'.resynced \cap DOMAIN episodes = {}
            /\ \A e \in DOMAIN episodes : episodes'[e] = episodes[e]]_vars

\* source {1,2,3}, store held {1,2} complete, episode 3 was fetched
C11_Witness ==
    /\ syOp.name = "ensureSeriesComplete"
    /\ syOp.outcome = "done"
    /\ syOp.resynced = {"e3"}
    /\ DOMAIN upstream = {"e1", "e2", "e3"}
    /\ DOMAIN episodes = {"e1", "e2", "e3"}
    /\ episodes["e1"].servers > 0
    /\ episodes["e2"].servers > 0

\* C12 (partly incomplete series): one completeness pass in which nothing
\* fails re-resolves every stored episode of the source that has no
\* servers, inserts the absent ones, and counts the absent ones as new, the
\* re-resolved ones as updated and the complete ones as skipped (source
\* 1x1..1x5, store 1x1..1x3 complete and 1x4 without servers: new=1,
\* updated=1, skipped=3).
C12_PartlyIncompleteSeries ==
    [][BackfillStep
         => LET present == DOMAIN upstream \cap DOMAIN episodes
                incomplete ==
                    {e \in present : checkEpisodeNeedsUpdate(episodes, e).needsUpdate}
            IN  /\ incomplete \subseteq syOp'.resynced
                /\ stats'.newEpisodes = stats.newEpisodes
                       + Cardinality(DOMAIN upstream \ DOMAIN episodes)
                /\ stats'.updatedEpisodes = stats.updatedEpisodes
                       + Cardinality(incomplete)
                /\ stats'.skippedEpisodes = stats.skippedEpisodes
                       + Cardinality(present \ incomplete)]_vars

-----------------------------------------------------------------------------
(* Properties of the health check *)

\* the step is an initialize() that health-checked the configured entries
HealthCheckStep ==
    /\ pmOp' = "initialize"
    /\ useProxy
    /\ Len(customProxies) > 0
    /\ validateCustomProxies

\* C14 (health-check filtering): initialize never leaves the pool empty,
\* and when every entry that was health-checked failed, the pool is the
\* list as it was before filtering, also when the list is longer than the
\* maximum number of tests.
C14_HealthCheckKeepsPool ==
    [][HealthCheckStep
         => /\ Len(proxies') > 0
            /\ pmHealthy' = {} => proxies' = customProxies]_vars


\* a request of fetchHtmlWithRetry fails: the catch block runs
FetchFailureStep == fhPc = "sent" /\ Len(fhErrors') = Len(fhErrors) + 1

CaughtError == fhErrors'[Len(fhErrors')]

RefusedOrTimeout == {"ECONNREFUSED", "ETIMEDOUT", "ECONNABORTED"}

\* C15: an attempt made through proxy p that fails with a
\* connection-refused or timeout error adds p, and only p, to the set of
\* failed proxies; an attempt that fails with an HTTP status error, or
\* any attempt made with no proxy, leaves that set unchanged.
C15_ProxyFailureSemantics ==
    [][FetchFailureStep
         => /\ (IsProxy(fhProxy) /\ CaughtError.code \in RefusedOrTimeout)
                  => failedProxies' = failedProxies \cup {fhProxy}
            /\ (CaughtError.code = "ERR_BAD_RESPONSE" \/ ~IsProxy(fhProxy))
                  => failedProxies' = failedProxies]_vars

\* the same statement for the two error codes the catch block tests
C15_ErrorCodeSemantics ==
    [][FetchFailureStep
         => /\ (IsProxy(fhProxy)
                  /\ CaughtError.code \in {"ECONNREFUSED", "ETIMEDOUT"})
                  => failedProxies' = failedProxies \cup {fhProxy}
            /\ (CaughtError.code = "ERR_BAD_RESPONSE" \/ ~IsProxy(fhProxy))
                  => failedProxies' = failedProxies]_vars

\* C16: a call makes at most MaxRetries attempts, every attempt asks
\* getNextProxy() anew, the call returns the body at the first response
\* whose status is in [200,400), and no attempt follows such a response.
C16_AttemptsAndFirstSuccess ==
    /\ fhSent <= MaxRetries
    /\ fhProxyCalls = fhSent
    /\ fhPc = "returned"
         => /\ fhResult = Body
            /\ fhLastStatus >= 200 /\ fhLastStatus < 400
            /\ fhOks = 1
            /\ Len(fhErrors) = fhSent - 1
    /\ fhOks >= 1 => fhPc = "returned"

C16_Witness ==
    /\ fhPc = "returned"
    /\ fhSent = 2
    /\ fhLastStatus = 399
    /\ fhErrors[1].code = "ERR_BAD_RESPONSE"

\* C17: when all MaxRetries attempts of a call fail, the call throws, the
\* error thrown carries the message of the last attempt's error, and the
\* call returns no value.
C17_ExhaustionThrowsLastError ==
    /\ Len(fhErrors) = MaxRetries
         => /\ fhPc = "threw"
            /\ fhResult = fhErrors[MaxRetries].message
            /\ fhResult # Body
    /\ fhPc = "threw" => Len(fhErrors) = MaxRetries /\ fhOks = 0

C17_Witness ==
    /\ fhPc = "threw"
    /\ fhErrors[1].message # fhErrors[MaxRetries].message
    /\ fhErrors[2].message # fhErrors[MaxRetries].message
    /\ fhResult = fhErrors[MaxRetries].message

\* C18: whatever errors the items of a pass raise, no exception leaves
\* main, the phases run in the order of AllPhases, a pass that is under
\* way stands before the phase that follows the ones it has executed, and
\* a pass that is over has executed every phase up to printSummary.
C18_PassNeverAborts ==
    /\ ~mnThrew /\ mnPc # "aborted"
    /\ mnPhases = SubSeq(AllPhases, 1, Len(mnPhases))
    /\ mnPc = "done" => mnPhases = AllPhases
    /\ mnPc \notin {"idle", "done"}
         => /\ Len(mnPhases) < Len(AllPhases)
            /\ mnPc = AllPhases[Len(mnPhases) + 1]

C18_Witness ==
    /\ mnPc = "done"
    /\ mnPasses = 1
    /\ mnPhases = AllPhases
    /\ mnStoreFailures >= 2
    /\ stats.failedEpisodes >= 1

\* C19: every item whose write the store rejected, or whose row the store
\* did not show after the three attempts of the persistence loop, is
\* counted in stats.failedEpisodes.
C19_NoFailureDropped == stats.failedEpisodes >= mnStoreFailures

\* a trigger: the startup callback, a cron callback or a GET /sync request
SvTriggerStep == svTriggers' = svTriggers + 1

\* C20: at most one pass is in progress at any time; a trigger that
\* arrives while syncStatus.isRunning is true starts no pass and leaves
\* totalRuns as it is, and a GET /sync in that state answers
\* "already_running".
C20_SinglePass ==
    [][/\ svActive' <= 1
       /\ (SvTriggerStep /\ syncStatus.isRunning)
             => /\ svActive' = svActive
                /\ syncStatus'.totalRuns = syncStatus.totalRuns
       /\ (SvTriggerStep /\ syncStatus.isRunning /\ svOp' = "GET /sync")
             => svResponse' = "already_running"]_vars

C20_Witness ==
    /\ svOp = "GET /sync"
    /\ svResponse = "already_running"
    /\ syncStatus.isRunning
    /\ svActive = 1
    /\ syncStatus.totalRuns = 2
    /\ svTriggers = 4

\* the local cache holds the item of the call and the call is not forced
CachedUnforcedStep ==
    SyncStep /\ ~syOp'.force /\ syOp'.item \in DOMAIN localEpisodeCache

\* the call skipped its item: no store or cache changed, nothing was read
\* from the remote store, written to it or fetched
SkippedWithoutCalls == StoredStateUnchanged /\ syCalls' = {}

RemoteCompleteStep ==
    /\ SyncStep
    /\ ~syOp'.force
    /\ syOp'.item \notin DOMAIN localEpisodeCache
    /\ syOp'.item \in DOMAIN episodes
    /\ episodes[syOp'.item].servers >= 1
    /\ episodes[syOp'.item].thumbnail # "none"

\* the item was skipped with no build and no upsert, and the local cache
\* has an entry for it
SkippedAndBackfilled ==
    /\ UNCHANGED <<episodes, episode_retries, latest_episodes>>
    /\ "fetch" \notin syCalls'
    /\ "write" \notin syCalls'
    /\ syOp'.item \in DOMAIN localEpisodeCache'

\* C22 (remote-complete skip with backfill): an unforced syncEpisodeByUrl
\* of an item that is not in the local cache and whose remote record has
\* at least one server and a thumbnail skips the item, with no build and
\* no upsert, and afterwards the local cache has an entry for the item.
C22_RemoteCompleteSkip ==
    [][RemoteCompleteStep => SkippedAndBackfilled]_vars

\* C22 as the code has it: the skip with backfill happens when the item
\* is not yet in processedEpisodes and the thumbnail is not an image
\* scraped from the site.
C22_RemoteCompleteSkipUnprocessed ==
    [][(/\ RemoteCompleteStep
        /\ syOp'.item \notin processedEpisodes
        /\ episodes[syOp'.item].thumbnail # "scraped")
         => /\ SkippedAndBackfilled
            /\ syOp'.outcome = "remote-skip"]_vars

C22_Witness ==
    /\ syOp.name = "syncEpisodeByUrl"
    /\ syOp.outcome = "remote-skip"
    /\ ~syOp.force
    /\ syOp.item \in DOMAIN episodes
    /\ episodes[syOp.item].servers >= 1
    /\ syOp.item \in DOMAIN localEpisodeCache
    /\ localEpisodeCache[syOp.item] = CacheBackfill
    /\ syCalls = {"read"}


\* C23 (processed set per run): the processed set skips an unforced item
\* only if the item was processed earlier in the same run, so a run starts
\* with a processed set that holds no item of an earlier run of the process.
C23_ProcessedSetPerRun ==
    [][syOp'.name = "main" => processedEpisodes' = {}]_vars


\* the steps of a pass in the order of the claim
PassOrder ==
    <<"processRetries", "pollHomepage", "updateSeriesFromLatestEpisodes",
      "auditLatestEpisodes", "auditAndUpdateEmptyServers", "printSummary">>

\* a phase of the pass has run to its end
PhaseStep == mnPhases' # mnPhases /\ mnPhases' # <<>>

\* C24 (phase order): a pass runs its phases in the order retries,
\* homepage, series completeness, latest audit, empty-servers audit,
\* summary; a phase runs as a whole and only when the phases before it
\* have finished.
C24_PhaseOrder ==
    [][PhaseStep
         => /\ Len(mnPhases) < Len(PassOrder)
            /\ mnPc = PassOrder[Len(mnPhases) + 1]
            /\ mnPhases = SubSeq(PassOrder, 1, Len(mnPhases))
            /\ mnPhases' = Append(mnPhases, PassOrder[Len(mnPhases) + 1])]_vars

C24_Witness ==
    /\ mnPc = "done"
    /\ mnPhases = PassOrder
    /\ mnLatest
    /\ mnPasses = 2



-----------------------------------------------------------------------------
(* extractEmbeds: which resolved candidates become servers *)

\* the argument of the top-level call resolve(intermediateUrl, 0)
IntermediateUrl == IF fetched # <<>> THEN fetched[1] ELSE rsUrl

\* a server option whose trembedUrl is handed to extractRealVideoUrl
IsTrembedOption(u) == u # Null /\ ~IsExternal(u)

\* the url fields that the resolved option adds to embeds (the servers of
\* the record that syncEpisodeByUrl counts and upserts)
Embeds ==
    IF /\ rsPc = "done"
       /\ IsTrembedOption(IntermediateUrl)
       /\ KeepsResolved(rsResult, IntermediateUrl)
    THEN {rsResult} ELSE {}

\* C25: every entry of the servers list has a non-null resolved URL that is
\* neither the intermediate reference itself nor a same-site URL nor a URL
\* that carries a redirection marker (trembed, trid=, trtype=).
C25_ServersAreResolved ==
    \A u \in Embeds :
        /\ u # Null
        /\ u # IntermediateUrl
        /\ ~IsToonstreamUrl(u)
        /\ ~HasMarker(u)

\* the part of C25 that the code keeps: no null, no intermediate reference,
\* no URL that contains the site's host name or "trembed"
C25_NoNullNoIntermediate ==
    \A u \in Embeds :
        /\ u # Null
        /\ u # IntermediateUrl
        /\ ~IsToonstreamUrl(u)
        /\ ~InclTrembed(u)


\* no URL was handed to fetchHtmlWithRetry twice
FetchedOnce ==
    \A i, j \in DOMAIN fetched : fetched[i] = fetched[j] => i = j

\* what was or is about to be fetched is in visited already
VisitedBeforeFetch ==
    /\ Range(fetched) \subseteq visited
    /\ rsPc = "fetch" => rsUrl \in visited

\* the step is a recursive call resolve(candidate, depth + 1)
FollowStep == rsPc \in {"fetch", "scripts"} /\ rsPc' = "call"

\* C26: within one top-level call no URL is fetched twice, a URL is in
\* visited before it is fetched, a candidate that is visited or equal to the
\* current URL is never followed, and the depth never exceeds maxDepth,
\* whatever cycles the documents contain.
C26_VisitedBoundsResolution ==
    /\ [](FetchedOnce /\ VisitedBeforeFetch /\ rsDepth <= EmbedMaxDepth + 2)
    /\ [][FollowStep => /\ rsUrl' \notin visited
                        /\ rsUrl' # rsUrl
                        /\ rsDepth' = rsDepth + 1]_vars

\* a run over documents that refer back to visited pages, which followed
\* candidates down to the deepest level
C26_Witness ==
    /\ rsCycle
    /\ rsDepth = EmbedMaxDepth + 2
    /\ Len(fetched) = rsDepth + 1
    /\ rsPc = "done"
    /\ rsFetch = "ok"


\* C27: whenever an item is synced with fewer than two usable servers, with
\* zero servers too, the retry schedule holds an entry for it afterwards.
C27_RetryBelowTwoServers ==
    [][(SyncedStep /\ upstream[syOp'.item].servers < 2)
          => syOp'.item \in DOMAIN episode_retries']_vars

\* what the code does: the entry is written when exactly one server resolved
C27_RetryAtOneServer ==
    [][(SyncedStep /\ upstream[syOp'.item].servers = 1)
          => syOp'.item \in DOMAIN episode_retries']_vars


\* the step is a call of syncEpisodeByUrl in which the upsert of the
\* episodes row succeeded
UpsertedStep ==
    /\ SyncStep
    /\ \/ syOp'.outcome = "synced"
       \/ syOp'.outcome = "threw" /\ episodes' # episodes

\* the cache of the process holds the upserted record under the item's key
CacheHoldsUpserted ==
    LET e == syOp'.item IN
    /\ e \in DOMAIN localEpisodeCache'
    /\ localEpisodeCache'[e] = CachePayload(episodes'[e])

\* the cache file holds what the cache of the process holds
FileFlushed == episodeCacheFile' = localEpisodeCache'

\* C28 (write-through cache): right after a successful upsert of an episode
\* the cache holds the upserted record under the episode's key and the cache
\* file is flushed; no operation removes an entry from the cache or its file.
C28_WriteThroughCache ==
    [][/\ UpsertedStep => (CacheHoldsUpserted /\ FileFlushed)
       /\ DOMAIN episodeCacheFile \subseteq DOMAIN episodeCacheFile'
       /\ syOp'.name # "start"
            => DOMAIN localEpisodeCache \subseteq DOMAIN localEpisodeCache']_vars

\* the part of C28 that holds whatever the disk does: the cache of the
\* process is written through and loses no entry while the process lives
C28_WriteThroughMemory ==
    [][/\ UpsertedStep => CacheHoldsUpserted
       /\ syOp'.name # "start"
            => DOMAIN localEpisodeCache \subseteq DOMAIN localEpisodeCache']_vars


\* the step is a fetch of the current node that fails after all attempts
FetchBreakStep == rsPc = "fetch" /\ rsFetch' = "failed"

\* C29 (resolution fetch break): when the fetch of any node of the followed
\* chain fails, that call of resolve returns null, the result of the
\* top-level call is null, and the URL whose fetch failed is not the result.
C29_FetchBreakReturnsNull ==
    /\ [][FetchBreakStep => (rsPc' = "done" /\ rsResult' = Null)]_vars
    /\ []((rsPc = "done" /\ rsFetch = "failed")
            => (rsResult = Null /\ rsResult # LastFetched))

\* the fetch that failed was that of a followed node, below the top level
C29_Witness ==
    /\ rsPc = "done"
    /\ rsFetch = "failed"
    /\ rsDepth >= 1
    /\ Len(fetched) = rsDepth + 1
    /\ LastFetched = rsUrl


\* the URL has a host and it is not the host of the source site
OnOtherHost(u) == u # Null /\ StartsWithHttp(u) /\ ~IsToonstreamUrl(u)

\* the step fetches a document without classified direct media whose first
\* differing, not yet visited iframe is on another host and has no marker
ExternalIframeStep ==
    /\ rsPc = "fetch"
    /\ rsFetch' = "ok"
    /\ ~IsVideoUrl(rsDirect')
    /\ OnOtherHost(rsIframe')
    /\ ~HasMarker(rsIframe')

\* C30 (external iframe is an endpoint): at every node, at every depth,
\* whose document has no classified direct media and whose first differing,
\* not yet visited iframe is on another host and carries no redirection
\* marker, resolve returns that iframe URL and never fetches it, player
\* signature or not.
C30_ExternalIframeEndpoint ==
    [][ExternalIframeStep
          => /\ rsPc' = "done"
             /\ rsResult' = rsIframe'
             /\ rsIframe' \notin Range(fetched')]_vars

\* what the code does: the iframe is returned when depth < MAX_DEPTH and the
\* iframe URL does not contain the host name of the source site anywhere
C30_ExternalIframeBelowMaxDepth ==
    [][(ExternalIframeStep /\ DepthAllows(rsDepth) /\ ~InclToonstream(rsIframe'))
          => /\ rsPc' = "done"
             /\ rsResult' = rsIframe'
             /\ rsIframe' \notin Range(fetched')]_vars


-----------------------------------------------------------------------------
(* Properties of extractEmbeds *)

\* the candidate URLs of the page in discovery order: player options,
\* elements with a trembed URL, iframes
Discovered ==
    [i \in DOMAIN exPlayer |-> TrembedUrl(exPlayer[i].nume, exPlayer[i].type)]
        \o SelectSeq(exSources, InclTrembed) \o exIframes

\* the first occurrences of s, in order
FirstOccurrences(s) ==
    LET keep == {i \in DOMAIN s : \A j \in 1..(i - 1) : s[j] # s[i]}
        RECURSIVE Pick(_, _)
        Pick(acc, i) ==
            IF i > Len(s) THEN acc
            ELSE Pick(IF i \in keep THEN Append(acc, s[i]) ELSE acc, i + 1)
    IN  Pick(<<>>, 1)

\* serverOptions holds each discovered URL once, in discovery order
DedupedInOrder ==
    [i \in DOMAIN serverOptions |-> serverOptions[i].url] = FirstOccurrences(Discovered)

\* C31 (extraction ordinals): the candidates of a page are de-duplicated by
\* URL and kept in discovery order, the ordinal of each candidate is its
\* position in that order (1, 2, 3, ...), and no two share an ordinal.
C31_OrdinalIsPosition ==
    exPc = "done"
        => /\ DedupedInOrder
           /\ \A i \in DOMAIN serverOptions : serverOptions[i].option = i
           /\ \A i, j \in DOMAIN serverOptions :
                  serverOptions[i].option = serverOptions[j].option => i = j

\* what the code keeps: de-duplication and discovery order
C31_DedupedInOrder == exPc = "done" => DedupedInOrder


-----------------------------------------------------------------------------
(* Further properties of extractRealVideoUrl *)

\* C32: extractRealVideoUrl returns null only when the starting URL is null
\* or the fetch of a node of the followed chain failed; when every fetch
\* succeeds the result is a URL.
C32_NullOnlyOnFetchBreak ==
    (rsPc = "done" /\ rsResult = Null)
        => (IntermediateUrl = Null \/ rsFetch = "failed")

\* every fetch of a chain of at least two nodes succeeded, nothing usable
\* was found at the last node, and the last URL reached is the result
C32_Witness ==
    /\ rsPc = "done"
    /\ rsFetch = "ok"
    /\ Len(fetched) >= 2
    /\ rsDirect = Null
    /\ rsResult = rsUrl
    /\ rsResult # Null


-----------------------------------------------------------------------------
(* Further properties of the sync orchestrator *)

\* the step is a call of upsertEpisode that threw because the store
\* rejected the upsert of episodes
RejectedUpsertStep ==
    /\ syOp'.name = "upsertEpisode"
    /\ syOp'.outcome = "episode upsert failed"

\* C33: when the store rejects the upsert of the episode, upsertEpisode
\* throws and leaves the local episode cache, the retry schedule and the
\* latest-items index as they were.
C33_RejectedUpsertFrame ==
    [][RejectedUpsertStep
         => UNCHANGED <<localEpisodeCache, episodeCacheFile, episode_retries,
                        latest_episodes, episodes>>]_vars

\* the rejected call came when the cache, the retry schedule and the index
\* already held the item, some hours after the index entry was written
C33_Witness ==
    /\ syOp.name = "upsertEpisode"
    /\ syOp.outcome = "episode upsert failed"
    /\ syOp.item \in DOMAIN localEpisodeCache
    /\ syOp.item \in DOMAIN episode_retries
    /\ syOp.item \in DOMAIN latest_episodes
    /\ latest_episodes[syOp.item].added_at < now


\* ---- item failure isolation ------------------------------------------

\* the homepage phase of main has run with the build of one item failing
PollWithFailedBuild ==
    /\ mnPc = "pollHomepage"
    /\ syOp'.name = "pollHomepage"
    /\ syOp'.outcome = "build"

\* the cards of the homepage that pollHomepage iterates
HomepageCards == {Cards[i] : i \in 1..Len(Cards)} \cap DOMAIN upstream

\* C34 (item failure isolation): in a phase that iterates over items (here
\* the homepage cards), an exception raised for one item does not prevent
\* the remaining items of the phase from being processed: every card has
\* reached syncEpisodeByUrl when the phase ends.
C34_ItemFailureIsolation ==
    [][PollWithFailedBuild => HomepageCards \subseteq processedEpisodes']_vars

\* what the loop does: the cards up to the one that threw have been
\* processed, and the phase ends without raising
C34_FailureEndsPhase ==
    [][PollWithFailedBuild =>
          /\ mnPc' = "updateSeriesFromLatestEpisodes" \/ mnPc' = "auditLatestEpisodes"
          /\ syOp'.resynced \subseteq processedEpisodes']_vars


\* ---- a new episode of a series the store does not hold yet ---------------

\* a syncEpisodeByUrl that inserts the record of its item
InsertStep ==
    /\ syOp'.name = "syncEpisodeByUrl"
    /\ syOp'.outcome = "synced"
    /\ syOp'.item \notin DOMAIN episodes
    /\ syOp'.item \in DOMAIN episodes'

\* the records the step inserts
Inserted == DOMAIN episodes' \ DOMAIN episodes

\* C35 (a new episode is counted and upserted once): a sync that inserts a
\* new episode adds it exactly once to the counter of new episodes and
\* upserts it exactly once, also when the series of the episode is not in
\* the store yet and is fully synced while the record is being built.
C35_NewEpisodeOnce ==
    [][InsertStep =>
          /\ stats'.newEpisodes = stats.newEpisodes + Cardinality(Inserted)
          /\ seUpserts' = 1]_vars

\* with the series known to resolveSeriesContext the new episode is
\* counted and upserted once
C35_KnownSeriesOnce ==
    [][(InsertStep /\ (series \/ seriesCache)) =>
          /\ stats'.newEpisodes = stats.newEpisodes + 1
          /\ seUpserts' = 1]_vars


\* ---- what the local cache stands for -------------------------------------

\* the item has a record in the store with at least one resolved server
HasResolvedRecord(e) == e \in DOMAIN episodes /\ episodes[e].servers >= 1

\* C36 (the cache implies a resolved record): every identity in the local
\* episode cache has a record in the remote store with at least one
\* resolved server.
C36_CacheImpliesResolved ==
    \A e \in DOMAIN localEpisodeCache : HasResolvedRecord(e)

\* what the writes of the cache establish: a cached identity has a record
\* in the store, whatever its servers
C36_CacheImpliesRecord ==
    \A e \in DOMAIN localEpisodeCache : e \in DOMAIN episodes


\* ---- getStats -------------------------------------------------------------

\* getStats(): total, failed, active, enabled
getStats ==
    [total |-> Len(proxies),
     failed |-> Cardinality(failedProxies),
     active |-> Len(proxies) - Cardinality(failedProxies),
     enabled |-> useProxy]

\* the entries of the pool that are not tombstoned
NonTombstoned == {i \in DOMAIN proxies : proxies[i] \notin failedProxies}

\* C37 (pool accounting): over initialize, getNextProxy and
\* markProxyAsFailed, several sync runs included, the active count of
\* getStats() is the number of pool entries that are not tombstoned, it is
\* never negative, and every tombstoned entry is in the current pool.
C37_ActiveCount ==
    /\ getStats.active = Cardinality(NonTombstoned)
    /\ getStats.active >= 0
    /\ failedProxies \subseteq Range(proxies)

\* what the counts of getStats() are: lengths of the pool and of the
\* tombstone set, whatever their relation
C37_StatsAreSizes ==
    /\ getStats.total = Len(proxies)
    /\ getStats.failed = Cardinality(failedProxies)
    /\ getStats.active = getStats.total - getStats.failed


\* ---- round-robin fairness -------------------------------------------------

\* the pool holds K distinct entries
DistinctPool(K) == Len(proxies) = K /\ Cardinality(Range(proxies)) = K

\* the second of two consecutive getNextProxy() calls, no tombstone left by
\* the first: the first call found no entry tombstoned, or every entry and
\* made the full reset; lastProxy is what the first call returned
SecondOfTwoCalls ==
    /\ pmOp = "getNextProxy"
    /\ pmOp' = "getNextProxy"
    /\ PoolEnabled
    /\ failedProxies = {}
    /\ currentIndex < Len(proxies)
    /\ lastProxy \in Range(proxies)

\* C38 (round-robin fairness), for K = 2: two consecutive getNextProxy()
\* calls on a pool of two distinct entries, no markProxyAsFailed in between,
\* return each entry exactly once, also when the first of the two calls
\* made the full tombstone reset.
C38_RoundRobinFairness ==
    [][(SecondOfTwoCalls /\ DistinctPool(2))
          => {lastProxy, lastProxy'} = Range(proxies)]_vars


\* ---- every pass ends ------------------------------------------------------

\* runSync leaves its finally block: the pass that was running has ended
PassEnds == syncStatus.isRunning /\ ~syncStatus.isRunning'

\* the runs counted as ended, successful or failed
EndedRuns(status) == status.successfulRuns + status.failedRuns

=============================================================================
